---- MODULE Spec2Model ----
(***************************************************************************)
(* URL shortener (Flask application src/app/app.py and the cloud function  *)
(* src/cloud-functions/url-redirect/main.py) as a state machine.           *)
(*                                                                         *)
(* Strings that the program computes on (short codes, submitted URLs, the  *)
(* hashid salt) are sequences of character codes; strings that are only    *)
(* compared (user names, passwords) are TLA+ strings.                      *)
(***************************************************************************)
EXTENDS Integers, Sequences, FiniteSets, TLC

(***************************************************************************)
(* Bounds of the model.                                                    *)
(***************************************************************************)
\* requests the processes handle in one behaviour (caps requests_total)
MaxRequests == 3
\* longest URL string a client submits
MaxUrlLen == 2

(***************************************************************************)
(* Hashid codec: hashids = Hashids(min_length=4, salt=SECRET_KEY).         *)
(***************************************************************************)
\* application.config["SECRET_KEY"] default "Divi"
SECRET_KEY == <<68, 105, 118, 105>>

min_length == 4

\* Hashids.ALPHABET = a-z A-Z 1-9 0
ALPHABET ==
  [i \in 1..26 |-> 96 + i] \o [i \in 1..26 |-> 64 + i] \o [i \in 1..9 |-> 48 + i] \o <<48>>

\* the separator candidates 'cfhistuCFHISTU'
SEPARATOR_CANDIDATES ==
  <<99, 102, 104, 105, 115, 116, 117, 67, 70, 72, 73, 83, 84, 85>>

Range(s) == {s[i] : i \in 1..Len(s)}

\* s[from:to] of Python, 0-based, end exclusive, clipped to the string
Slice(s, from, to) ==
  LET hi == IF to > Len(s) THEN Len(s) ELSE to
  IN  IF from >= hi THEN <<>> ELSE [i \in 1..(hi - from) |-> s[from + i]]

\* alphabet.index(ch), 0-based
IndexOf(ch, s) == (CHOOSE i \in 1..Len(s) : s[i] = ch /\ \A k \in 1..(i - 1) : s[k] # ch) - 1

\* int(ceil(float(dividend) / divisor)) with the divisor given as num/den
IndexFromRatio(dividend, num, den) == ((dividend * den) + num - 1) \div num

RECURSIVE ReorderLoop(_, _, _, _, _)
ReorderLoop(string, salt, i, index, integer_sum) ==
  IF i < 1 THEN string
  ELSE LET integer == salt[index + 1]
           sum2    == integer_sum + integer
           j       == (integer + index + sum2) % i
           swapped == [string EXCEPT ![i + 1] = string[j + 1], ![j + 1] = string[i + 1]]
       IN  ReorderLoop(swapped, salt, i - 1, (index + 1) % Len(salt), sum2)

\* hashids._reorder: salt-driven shuffle
Reorder(string, salt) ==
  IF Len(salt) = 0 THEN string ELSE ReorderLoop(string, salt, Len(string) - 1, 0, 0)

RECURSIVE HashidsHash(_, _)
\* hashids._hash: number in the base of the alphabet
HashidsHash(number, alphabet) ==
  LET digit == <<alphabet[(number % Len(alphabet)) + 1]>>
  IN  IF number \div Len(alphabet) = 0 THEN digit
      ELSE HashidsHash(number \div Len(alphabet), alphabet) \o digit

RECURSIVE UnhashLoop(_, _, _, _)
UnhashLoop(hashed, alphabet, i, number) ==
  IF i > Len(hashed) THEN number
  ELSE IF hashed[i] \notin Range(alphabet) THEN -1
  ELSE UnhashLoop(hashed, alphabet, i + 1, number * Len(alphabet) + IndexOf(hashed[i], alphabet))

\* hashids._unhash; -1 stands for the ValueError of alphabet.index
HashidsUnhash(hashed, alphabet) == UnhashLoop(hashed, alphabet, 1, 0)

RECURSIVE SplitLoop(_, _, _, _, _)
SplitLoop(string, splitters, i, part, parts) ==
  IF i > Len(string) THEN Append(parts, part)
  ELSE IF string[i] \in Range(splitters)
       THEN SplitLoop(string, splitters, i + 1, <<>>, Append(parts, part))
       ELSE SplitLoop(string, splitters, i + 1, Append(part, string[i]), parts)

\* hashids._split
HashidsSplit(string, splitters) == SplitLoop(string, splitters, 1, <<>>, <<>>)

\* Hashids.__init__, last part: the guards are cut from the alphabet, or from
\* the separators when the alphabet is shorter than 3
SetupGuards(alphabet, separators, num_guards) ==
  IF Len(alphabet) < 3
  THEN [alphabet |-> alphabet, guards |-> Slice(separators, 0, num_guards),
        separators |-> Slice(separators, num_guards, Len(separators))]
  ELSE [alphabet |-> Slice(alphabet, num_guards, Len(alphabet)),
        guards |-> Slice(alphabet, 0, num_guards), separators |-> separators]

\* num_guards = _index_from_ratio(len_alphabet, RATIO_GUARDS)
SetupShuffled(alphabet, separators) ==
  SetupGuards(alphabet, separators, IndexFromRatio(Len(alphabet), 12, 1))

\* missing separators are taken from the front of the alphabet, which is then
\* shuffled with the salt
SetupBalance(alphabet, separators, number_of_missing_separators) ==
  IF number_of_missing_separators > 0
  THEN SetupShuffled(Reorder(Slice(alphabet, number_of_missing_separators, Len(alphabet)),
                             SECRET_KEY),
                     separators \o Slice(alphabet, 0, number_of_missing_separators))
  ELSE SetupShuffled(Reorder(alphabet, SECRET_KEY), separators)

\* min_separators = _index_from_ratio(len_alphabet, RATIO_SEPARATORS)
SetupSeparators(alphabet, separators) ==
  SetupBalance(alphabet, separators, IndexFromRatio(Len(alphabet), 7, 2) - Len(separators))

\* the alphabet loses the separators, the separators are shuffled with the salt
SetupAlphabet(separators) ==
  SetupSeparators(SelectSeq(ALPHABET, LAMBDA x : x \notin Range(separators)),
                  Reorder(separators, SECRET_KEY))

\* Hashids.__init__: alphabet, separators and guards of the instance
HashidsSetup ==
  SetupAlphabet(SelectSeq(SEPARATOR_CANDIDATES, LAMBDA x : x \in Range(ALPHABET)))

HashidsAlphabet == HashidsSetup.alphabet

HashidsSeparators == HashidsSetup.separators

HashidsGuards == HashidsSetup.guards

RECURSIVE EnsureLengthLoop(_, _)
EnsureLengthLoop(encoded, alphabet) ==
  IF Len(encoded) >= min_length THEN encoded
  ELSE LET alpha2   == Reorder(alphabet, alphabet)
           split_at == Len(alphabet) \div 2
           grown    == Slice(alpha2, split_at, Len(alpha2)) \o encoded \o Slice(alpha2, 0, split_at)
           excess   == Len(grown) - min_length
           cut      == IF excess > 0
                       THEN Slice(grown, excess \div 2, (excess \div 2) + min_length)
                       ELSE grown
       IN  EnsureLengthLoop(cut, alpha2)

\* a guard is appended when the token is still too short
EnsureLengthBack(encoded, alphabet, values_hash, guards) ==
  IF Len(encoded) < min_length
  THEN EnsureLengthLoop(Append(encoded, guards[((values_hash + encoded[3]) % Len(guards)) + 1]),
                        alphabet)
  ELSE EnsureLengthLoop(encoded, alphabet)

\* a guard is put in front
EnsureLengthFront(encoded, alphabet, values_hash, guards) ==
  EnsureLengthBack(<<guards[((values_hash + encoded[1]) % Len(guards)) + 1]>> \o encoded,
                   alphabet, values_hash, guards)

\* hashids._ensure_length: pad with guards, then with alphabet halves
HashidsEnsureLength(encoded, alphabet, values_hash) ==
  EnsureLengthFront(encoded, alphabet, values_hash, HashidsGuards)

RECURSIVE ValuesHash(_, _)
ValuesHash(values, i) ==
  IF i > Len(values) THEN 0 ELSE (values[i] % (i - 1 + 100)) + ValuesHash(values, i + 1)

\* one value is written in the shuffled alphabet and followed by a separator
EncodeValue(value, i, alphabet, separators) ==
  [alphabet |-> alphabet,
   hashed   |-> HashidsHash(value, alphabet)
                  \o <<separators[((value % (HashidsHash(value, alphabet)[1] + (i - 1)))
                                     % Len(separators)) + 1]>>]

\* the alphabet is shuffled with lottery + salt + alphabet, cut to its length
EncodeShuffle(value, i, lottery, alphabet) ==
  EncodeValue(value, i,
              Reorder(alphabet, Slice(<<lottery>> \o SECRET_KEY \o alphabet, 0, Len(alphabet))),
              HashidsSeparators)

RECURSIVE EncodeLoop(_, _, _, _, _)
EncodeLoop(values, i, lottery, alphabet, encoded) ==
  IF i > Len(values) THEN [encoded |-> encoded, alphabet |-> alphabet]
  ELSE EncodeLoop(values, i + 1, lottery,
                  EncodeShuffle(values[i], i, lottery, alphabet).alphabet,
                  encoded \o EncodeShuffle(values[i], i, lottery, alphabet).hashed)

\* the last separator is dropped and a short token is padded
EncodeFinish(encoded, alphabet, values_hash) ==
  IF Len(encoded) >= min_length THEN encoded
  ELSE HashidsEnsureLength(encoded, alphabet, values_hash)

EncodeResult(result, values_hash) ==
  EncodeFinish(Slice(result.encoded, 0, Len(result.encoded) - 1), result.alphabet, values_hash)

EncodeLottery(values, values_hash, lottery) ==
  EncodeResult(EncodeLoop(values, 1, lottery, HashidsAlphabet, <<lottery>>), values_hash)

EncodeValues(values, values_hash, alphabet) ==
  EncodeLottery(values, values_hash, alphabet[(values_hash % Len(alphabet)) + 1])

\* hashids.encode(*values): '' for no values
HashidsEncode(values) ==
  IF Len(values) = 0 THEN <<>>
  ELSE EncodeValues(values, ValuesHash(values, 1), HashidsAlphabet)

\* the alphabet is shuffled as it was for encoding
DecodeShuffle(lottery, alphabet) ==
  Reorder(alphabet, Slice(<<lottery>> \o SECRET_KEY \o alphabet, 0, Len(alphabet)))

RECURSIVE DecodeLoop(_, _, _, _, _)
DecodeLoop(hash_parts, i, lottery, alphabet, numbers) ==
  IF i > Len(hash_parts) THEN numbers
  ELSE DecodeLoop(hash_parts, i + 1, lottery, DecodeShuffle(lottery, alphabet),
                  Append(numbers, HashidsUnhash(hash_parts[i], DecodeShuffle(lottery, alphabet))))

\* the first character of the body is the lottery, the rest the numbers
DecodeBody(body) ==
  IF Len(body) = 0 THEN <<>>
  ELSE DecodeLoop(HashidsSplit(Tail(body), HashidsSeparators), 1, body[1],
                  HashidsAlphabet, <<>>)

\* the body is the part between the guards
DecodeParts(parts) ==
  DecodeBody(IF Len(parts) >= 2 /\ Len(parts) <= 3 THEN parts[2] ELSE parts[1])

\* hashids._decode: the numbers a token spells, before the re-encode check
HashidsRawDecode(hashid) == DecodeParts(HashidsSplit(hashid, HashidsGuards))

\* the numbers count when the token is their encoding
DecodeCheck(hashid, numbers) ==
  IF \E i \in 1..Len(numbers) : numbers[i] < 0 THEN <<>>
  ELSE IF hashid = HashidsEncode(numbers) THEN numbers ELSE <<>>

\* hashids.decode(hashid): () unless the token re-encodes to itself
HashidsDecode(hashid) ==
  IF Len(hashid) = 0 THEN <<>> ELSE DecodeCheck(hashid, HashidsRawDecode(hashid))


(***************************************************************************)
(* Strings of the shorten form.                                            *)
(***************************************************************************)
SPACE == 32

\* the characters a submitted URL is made of: a letter and a blank
UrlChars == {97, SPACE}

RECURSIVE SeqsUpTo(_, _)
SeqsUpTo(S, n) ==
  IF n = 0 THEN {<<>>}
  ELSE LET shorter == SeqsUpTo(S, n - 1)
       IN  shorter \cup {Append(s, c) : s \in {t \in shorter : Len(t) = n - 1}, c \in S}

UrlInputs == SeqsUpTo(UrlChars, MaxUrlLen)

RECURSIVE LStrip(_)
LStrip(s) == IF Len(s) > 0 /\ s[1] = SPACE THEN LStrip(Tail(s)) ELSE s

RECURSIVE RStrip(_)
RStrip(s) == IF Len(s) > 0 /\ s[Len(s)] = SPACE THEN RStrip(SubSeq(s, 1, Len(s) - 1)) ELSE s

\* str.strip()
strip(s) == RStrip(LStrip(s))

\* hashlib.sha256(password).hexdigest(): a digest is not the password
sha256(password) == <<"sha256", password>>


(***************************************************************************)
(* Further bounds and the inputs clients send.                             *)
(***************************************************************************)
\* request-handling threads that run concurrently
NumWorkers == 2
\* browser sessions (cookie jars)
NumClients == 1

Procs == 1..NumWorkers

Clients == 1..NumClients

\* DB_POOL_MAX_SIZE default of the Flask application
DB_POOL_MAX_SIZE == 10

\* pool_max_size default of the cloud function
CF_POOL_MAX_SIZE == 5

\* MAX_TABLE_ITEMS of stats: 100 in the source, scaled down so that the links of
\* one user outnumber it within MaxRequests
MAX_TABLE_ITEMS == 2

\* column default of urls.clicks
ClicksDefault == 0

\* ids the urls table can hand out within the bounds
MaxUrlId == 2 + MaxRequests

UrlIds == 1..MaxUrlId

\* what a client types into the username and password fields
FormNames == {"", "alice", "bob"}

FormPasswords == {"", "pw1", "pw2"}

\* a token of two numbers, a token of another salt, and a token with a
\* character outside the alphabet
TwoNumberCode == HashidsEncode(<<1, 2>>)

ForeignCode == <<78, 107, 75, 57>>

BadCharCode == <<97, 45, 97, 97>>

EncodeTable == [i \in UrlIds |-> HashidsEncode(<<i>>)]

\* mutant: an even id is encoded as its predecessor
encode_paired(url_id) == EncodeTable[((url_id + 1) \div 2) * 2 - 1]

\* the short code the application issues for a urls id: hashids.encode(url_id)
encode(url_id) == EncodeTable[url_id]

\* path segments clients request
CodeInputs == {encode(i) : i \in UrlIds} \cup {TwoNumberCode, ForeignCode, BadCharCode}

DecodeTable == [c \in CodeInputs \cup {<<>>} |-> HashidsDecode(c)]

\* hashids.decode(id)
decode(id) == DecodeTable[id]

(***************************************************************************)
(* State.                                                                  *)
(***************************************************************************)
VARIABLES
  env,            \* os.environ: USE_CLOUD_FUNCTION_REDIRECT, CLOUD_FUNCTION_REDIRECT_URL
  username_unique,\* whether users.username carries a UNIQUE constraint
  db_pool,        \* the Flask application's _db_pool is not None
  cf_db_pool,     \* the cloud function's _db_pool is not None
  pools_created,  \* PooledDB objects constructed so far, by process
  checked_out,    \* connections checked out of the Flask application's pool
  cf_checked_out, \* connections checked out of the cloud function's pool
  users,          \* committed rows of users, by id
  urls,           \* committed rows of urls, by id
  autoinc,        \* next auto-increment id of each table
  session,        \* the session cookie of each client
  gcs_bucket_name,\* the configured bucket name, "" when none is configured
  gcs_client,     \* the storage client is not None
  gcs,            \* blob names in the bucket
  tmp,            \* QR image files in the temporary directory, by hashid
  pc,             \* where each worker is in its handler
  req,            \* the request a worker is handling
  loc,            \* the handler's local variables, its connection and transaction
  last,           \* the request completed last: request, final locals, response
  requests_total, \* _metrics['requests_total']
  errors_total,   \* _metrics['errors_total']
  cf_requests,    \* invocations of the cloud function
  requests_begun, \* history: requests the Flask application has begun handling
  clicks0,        \* history: clicks of each link when it was first seen
  redirects,      \* history, per link: resolutions begun, answered 302, commits applied, overlapped
  submitted,      \* history: the URL string submitted for each short code issued
  registrations   \* history, per username: registrations begun, succeeded, overlapped

vars == <<env, username_unique, db_pool, cf_db_pool, pools_created, checked_out, cf_checked_out,
          users, urls, autoinc, session, gcs_bucket_name, gcs_client, gcs, tmp,
          pc, req, loc, last,
          requests_total, requests_begun, errors_total, cf_requests,
          clicks0, redirects, submitted, registrations>>

NoSession == [user_id |-> 0, username |-> ""]

NoTxn == [op |-> "none", id |-> 0, original_url |-> <<>>, user_id |-> 0, clicks |-> 0,
          username |-> "", password |-> <<>>]

NoReq == [kind |-> "none", client |-> 0, user_id |-> 0, method |-> "", id |-> <<>>,
          url |-> <<>>, username |-> "", password |-> "", confirm_password |-> ""]

NoLoc == [conn |-> FALSE, txn |-> NoTxn, acquired |-> 0, reads |-> 0, writes |-> 0,
          commits |-> 0, rollbacks |-> 0, prior_ok |-> FALSE,
          user_id |-> 0, url |-> <<>>, original_id |-> 0, original_url |-> <<>>,
          clicks |-> 0, url_id |-> 0, qr_path |-> FALSE, uploads |-> 0,
          pool |-> 0, pool_init |-> FALSE, requests_total |-> 0]

NoResp == [status |-> 0, target |-> "", location |-> <<>>, flash |-> "",
           short_url |-> <<>>, short_base |-> "", image_path |-> "", database |-> "",
           requests_total |-> 0, errors_total |-> 0,
           total_urls |-> 0, total_clicks |-> 0, average_clicks |-> 0, urls |-> <<>>]

NoLast == [req |-> NoReq, loc |-> NoLoc, resp |-> NoResp]

Response(status, target, flash) ==
  [NoResp EXCEPT !.status = status, !.target = target, !.flash = flash]

\* redirect(url_for(page)) after flash(message)
FlashRedirect(page, message) == Response(302, page, message)

\* a new request is taken by the first free worker
Free(p) == pc[p] = "idle" /\ \A q \in Procs : q < p => pc[q] # "idle"

Budget == requests_begun + cf_requests < MaxRequests

\* mutant: the switch alone decides
Forwarding_switch_only == env.USE_CLOUD_FUNCTION_REDIRECT

\* use_cloud_function and cloud_function_url
Forwarding == env.USE_CLOUD_FUNCTION_REDIRECT /\ env.CLOUD_FUNCTION_REDIRECT_URL # ""

\* workers that are resolving link id right now
Resolving(id) ==
  {q \in Procs : /\ pc[q] \in {"rd_connect", "rd_select", "rd_update", "rd_commit",
                                "cf_connect", "cf_select", "cf_update", "cf_commit"}
                 /\ loc[q].original_id = id}

NoteBegun(id) ==
  IF id \in UrlIds
  THEN redirects' = [redirects EXCEPT ![id].begun = @ + 1,
                                      ![id].overlapped = @ \/ Resolving(id) # {}]
  ELSE UNCHANGED redirects

NoteAnswered(id) ==
  redirects' = [redirects EXCEPT ![id].ok302 = @ + 1, ![id].applied = @ + 1]

\* a commit that raised was applied by the server, or was not
NoteUnknown(id, applied) ==
  redirects' = [redirects EXCEPT ![id].applied = IF applied THEN @ + 1 ELSE @]

\* workers that are registering username right now
Registering(username) ==
  {q \in Procs : /\ pc[q] \in {"rg_connect", "rg_select", "rg_insert", "rg_commit"}
                 /\ req[q].username = username}

\* ids of the users rows with this username
RowsNamed(username) == {i \in DOMAIN users : users[i].username = username}

\* mutant: the except clause answers 500 instead of redirecting
ErrorResponse_500(kind) == Response(500, "Internal Server Error", "")

\* the response of a handler's "except Exception" clause
ErrorResponse(kind) ==
  CASE kind = "url_redirect" ->
         FlashRedirect("index", "An error occurred while redirecting. Please try again.")
    [] kind = "index" ->
         FlashRedirect("index", "An error occurred while processing your request. Please try again.")
    [] kind = "stats" ->
         FlashRedirect("index", "An error occurred while loading statistics. Please try again.")
    [] kind = "register" ->
         FlashRedirect("register", "An error occurred during registration. Please try again.")
    [] kind = "login" ->
         FlashRedirect("login", "An error occurred during login. Please try again.")
    [] kind = "cf_redirect" -> Response(500, "Database error", "")

\* the worker moves on inside its handler
Goto(p, label, locals) ==
  /\ pc' = [pc EXCEPT ![p] = label]
  /\ loc' = [loc EXCEPT ![p] = locals]
  /\ UNCHANGED <<req, last>>

\* the handler returns: the response goes out and the worker is free again
Return(p, request, locals, response) ==
  /\ pc' = [pc EXCEPT ![p] = "idle"]
  /\ req' = [req EXCEPT ![p] = NoReq]
  /\ loc' = [loc EXCEPT ![p] = NoLoc]
  /\ last' = [req |-> request, loc |-> [locals EXCEPT !.conn = FALSE], resp |-> response]

\* "finally: conn.close()": the connection goes back to its pool
Close(p) ==
  IF req[p].kind = "cf_redirect"
  THEN /\ cf_checked_out' = IF loc[p].conn THEN cf_checked_out - 1 ELSE cf_checked_out
       /\ UNCHANGED checked_out
  ELSE /\ checked_out' = IF loc[p].conn THEN checked_out - 1 ELSE checked_out
       /\ UNCHANGED cf_checked_out

\* mutant: the finally clause is missing, so the connection stays checked out
Raise_keep(p) ==
  /\ errors_total' = errors_total + 1
  /\ UNCHANGED <<checked_out, cf_checked_out>>
  /\ Return(p, req[p],
            [loc[p] EXCEPT !.rollbacks = IF loc[p].conn THEN @ + 1 ELSE @, !.txn = NoTxn],
            ErrorResponse(req[p].kind))

\* mutant: the except clauses do not roll back
Raise_dirty(p) ==
  /\ errors_total' = errors_total + 1
  /\ Close(p)
  /\ Return(p, req[p], loc[p], ErrorResponse(req[p].kind))

\* mutant: the except clauses do not count the error
Raise_uncounted(p) ==
  /\ UNCHANGED errors_total
  /\ Close(p)
  /\ Return(p, req[p],
            [loc[p] EXCEPT !.rollbacks = IF loc[p].conn THEN @ + 1 ELSE @, !.txn = NoTxn],
            ErrorResponse(req[p].kind))

\* an exception inside "with get_db_connection()": the error is counted, the
\* transaction rolled back, the connection closed, and the handler's except
\* clause answers
Raise(p) ==
  /\ errors_total' = errors_total + 1
  /\ Close(p)
  /\ Return(p, req[p],
            [loc[p] EXCEPT !.rollbacks = IF loc[p].conn THEN @ + 1 ELSE @, !.txn = NoTxn],
            ErrorResponse(req[p].kind))

cfgvars == <<env, username_unique, gcs_bucket_name, gcs_client>>

poolvars == <<db_pool, cf_db_pool, pools_created>>

dbvars == <<users, urls, autoinc>>

histvars == <<clicks0, redirects, submitted, registrations>>

\* the worker moves on; no error is counted and no connection moves
Step(p, label, locals) ==
  /\ Goto(p, label, locals)
  /\ UNCHANGED <<errors_total, checked_out, cf_checked_out>>

\* the handler returns normally, leaving any "with get_db_connection()" block
Done(p, request, locals, response) ==
  /\ Return(p, request, locals, response)
  /\ Close(p)
  /\ UNCHANGED errors_total

\* the environment with no variable set: local resolution and the default pool
\* sizes (DB_POOL_MAX_SIZE of the application, and of the cloud function)
LocalEnv == [USE_CLOUD_FUNCTION_REDIRECT |-> FALSE, CLOUD_FUNCTION_REDIRECT_URL |-> "",
             DB_POOL_MAX_SIZE |-> DB_POOL_MAX_SIZE, CF_POOL_MAX_SIZE |-> CF_POOL_MAX_SIZE]

\* every setting of the two redirect variables
Envs == [USE_CLOUD_FUNCTION_REDIRECT : BOOLEAN, CLOUD_FUNCTION_REDIRECT_URL : {"", "https://cf"},
         DB_POOL_MAX_SIZE : {DB_POOL_MAX_SIZE}, CF_POOL_MAX_SIZE : {CF_POOL_MAX_SIZE}]

\* DB_POOL_MAX_SIZE=1 in the environment of both processes
OneConnectionEnv == [LocalEnv EXCEPT !.DB_POOL_MAX_SIZE = 1, !.CF_POOL_MAX_SIZE = 1]

Alice == [user_id |-> 1, username |-> "alice"]

\* a urls table of one link of user 1, with one of the given click counts
OneLink(counts) ==
  {(1 :> [original_url |-> <<97>>, user_id |-> 1, clicks |-> n]) : n \in counts}

\* f"{hashid}.png": the name of the QR image of a code, in the bucket and in
\* the Content-Disposition of a download
PngName(hashid) == hashid \o <<46, 112, 110, 103>>

\* a bucket is configured and the storage client exists
BucketAndClient == <<"qr-bucket", TRUE>>

\* every setting of the bucket name and the storage client
Stores == {"", "qr-bucket"} \X BOOLEAN

Bob == [user_id |-> 2, username |-> "bob"]

\* the users table after alice registered with pw1
AliceOnly == (1 :> [username |-> "alice", password |-> sha256("pw1")])

\* the users table after alice and then bob (with pw2) registered
AliceAndBob == AliceOnly @@ (2 :> [username |-> "bob", password |-> sha256("pw2")])

\* the processes start against a database that holds the users of one of the
\* accounts tables and the links of a urls table; the arguments are the
\* settings, the cookies and the tables a behaviour may start with
InitOf(envs, uniques, pools, accounts, cookies, tables, stores) ==
  /\ env \in envs
  /\ username_unique \in uniques
  /\ db_pool \in pools
  /\ cf_db_pool = FALSE
  /\ pools_created = [app |-> IF db_pool THEN 1 ELSE 0, cf |-> 0]
  /\ checked_out = 0
  /\ cf_checked_out = 0
  /\ users \in accounts
  /\ urls \in tables
  /\ autoinc = [users |-> Cardinality(DOMAIN users) + 1, urls |-> Cardinality(DOMAIN urls) + 1]
  /\ session \in [Clients -> cookies]
  /\ \E store \in stores : gcs_bucket_name = store[1] /\ gcs_client = store[2]
  /\ gcs = {PngName(encode(i)) : i \in DOMAIN urls}
  /\ tmp = {}
  /\ pc = [p \in Procs |-> "idle"]
  /\ req = [p \in Procs |-> NoReq]
  /\ loc = [p \in Procs |-> NoLoc]
  /\ last = NoLast
  /\ requests_total = 0
  /\ errors_total = 0
  /\ cf_requests = 0
  /\ requests_begun = 0
  /\ clicks0 = [i \in UrlIds |-> IF i \in DOMAIN urls THEN urls[i].clicks ELSE ClicksDefault]
  /\ redirects = [i \in UrlIds |-> [begun |-> 0, ok302 |-> 0, applied |-> 0,
                                   overlapped |-> FALSE]]
  /\ submitted = <<>>
  /\ registrations = [u \in FormNames \ {""} |-> [begun |-> 0, ok |-> 0, overlapped |-> FALSE]]

\* the same with alice as the only user
InitWith(envs, uniques, pools, cookies, tables, stores) ==
  InitOf(envs, uniques, pools, {AliceOnly}, cookies, tables, stores)
(***************************************************************************)
(* get_db_connection: the pool is created on first use, a connection is    *)
(* checked out, and either step can raise.                                 *)
(***************************************************************************)
AfterConnect(label) ==
  CASE label = "rd_connect" -> "rd_select"
    [] label = "ins_connect" -> "ins_execute"
    [] label = "rg_connect" -> "rg_select"
    [] label = "lg_connect" -> "lg_select"
    [] label = "st_connect" -> "st_query"

\* connections checked out of pool object k of the Flask application
DrawnApp(k) ==
  Cardinality({q \in Procs : loc[q].conn /\ req[q].kind # "cf_redirect" /\ loc[q].pool = k})

\* connections checked out of pool object k of the cloud function
DrawnCf(k) ==
  Cardinality({q \in Procs : loc[q].conn /\ req[q].kind = "cf_redirect" /\ loc[q].pool = k})

\* "if _db_pool is None: init_db_pool()", where the test of init_db_pool finds
\* None as well, or "conn = _db_pool.connection()": the pool object hands out a
\* connection while fewer than maxconnections are drawn from it and raises
\* otherwise, as it does when the server cannot be reached
get_db_connection(p) ==
  /\ pc[p] \in {"rd_connect", "ins_connect", "rg_connect", "lg_connect", "st_connect"}
  /\ ~loc[p].pool_init
  /\ \/ /\ ~db_pool
        /\ Step(p, pc[p], [loc[p] EXCEPT !.pool_init = TRUE])
     \/ /\ db_pool
        /\ DrawnApp(pools_created.app) < env.DB_POOL_MAX_SIZE
        /\ checked_out' = checked_out + 1
        /\ Goto(p, AfterConnect(pc[p]),
                [loc[p] EXCEPT !.conn = TRUE, !.acquired = @ + 1, !.pool = pools_created.app])
        /\ UNCHANGED <<errors_total, cf_checked_out>>
     \/ /\ db_pool
        /\ Raise(p)
  /\ UNCHANGED <<cfgvars, poolvars, dbvars, session, gcs, tmp, requests_total, requests_begun, cf_requests,
                 histvars>>

\* the body of init_db_pool after its test found None: "_db_pool = PooledDB(...)"
\* constructs a pool object and assigns it, whatever _db_pool holds by then, and
\* get_db_connection draws its connection from it; or the constructor raises,
\* or the new pool's connection() does
init_db_pool(p) ==
  /\ pc[p] \in {"rd_connect", "ins_connect", "rg_connect", "lg_connect", "st_connect"}
  /\ loc[p].pool_init
  /\ \/ /\ db_pool' = TRUE
        /\ pools_created' = [pools_created EXCEPT !.app = @ + 1]
        /\ checked_out' = checked_out + 1
        /\ Goto(p, AfterConnect(pc[p]),
                [loc[p] EXCEPT !.conn = TRUE, !.acquired = @ + 1, !.pool_init = FALSE,
                               !.pool = pools_created.app + 1])
        /\ UNCHANGED <<errors_total, cf_checked_out>>
     \/ /\ UNCHANGED <<db_pool, pools_created>>
        /\ Raise(p)
     \/ /\ db_pool' = TRUE
        /\ pools_created' = [pools_created EXCEPT !.app = @ + 1]
        /\ Raise(p)
  /\ UNCHANGED <<cfgvars, cf_db_pool, dbvars, session, gcs, tmp, requests_total, requests_begun, cf_requests,
                 histvars>>

(***************************************************************************)
(* GET /<id> of the Flask application: url_redirect.                       *)
(***************************************************************************)
\* mutant: the connection is taken before the code is decoded
url_redirect_begin_eager(p, id) ==
  /\ Free(p)
  /\ Budget
  /\ requests_total' = requests_total + 1
  /\ requests_begun' = requests_begun + 1
  /\ LET request == [NoReq EXCEPT !.kind = "url_redirect", !.method = "GET", !.id = id]
         original_id == decode(id)
     IN  IF Forwarding
         THEN /\ Return(p, request, NoLoc,
                        [Response(302, "cloud_function", "") EXCEPT !.location = id])
              /\ UNCHANGED redirects
         ELSE /\ pc' = [pc EXCEPT ![p] = "rd_connect"]
              /\ req' = [req EXCEPT ![p] = request]
              /\ loc' = [loc EXCEPT ![p] =
                           [NoLoc EXCEPT !.original_id =
                              IF Len(original_id) = 0 THEN 0 ELSE original_id[1]]]
              /\ NoteBegun(IF Len(original_id) = 0 THEN 0 ELSE original_id[1])
              /\ UNCHANGED last
  /\ UNCHANGED <<cfgvars, poolvars, checked_out, cf_checked_out, dbvars, session,
                 gcs, tmp, errors_total, cf_requests, clicks0, submitted, registrations>>

url_redirect_begin(p, id) ==
  /\ Free(p)
  /\ Budget
  /\ requests_total' = requests_total + 1
  /\ requests_begun' = requests_begun + 1
  /\ LET request == [NoReq EXCEPT !.kind = "url_redirect", !.method = "GET", !.id = id]
     IN  IF Forwarding
         THEN /\ Return(p, request, NoLoc,
                        [Response(302, "cloud_function", "") EXCEPT !.location = id])
              /\ UNCHANGED redirects
         ELSE LET original_id == decode(id)
              IN  IF Len(original_id) = 0
                  THEN /\ Return(p, request, NoLoc, Response(404, "Invalid URL", ""))
                       /\ UNCHANGED redirects
                  ELSE /\ pc' = [pc EXCEPT ![p] = "rd_connect"]
                       /\ req' = [req EXCEPT ![p] = request]
                       /\ loc' = [loc EXCEPT ![p] = [NoLoc EXCEPT !.original_id = original_id[1]]]
                       /\ NoteBegun(original_id[1])
                       /\ UNCHANGED last
  /\ UNCHANGED <<cfgvars, poolvars, checked_out, cf_checked_out, dbvars, session,
                 gcs, tmp, errors_total, cf_requests, clicks0, submitted, registrations>>

\* mutant: the not-found return keeps the connection
url_redirect_select_leak(p) ==
  /\ pc[p] = "rd_select"
  /\ \/ /\ loc[p].original_id \in DOMAIN urls
        /\ Step(p, "rd_update",
                [loc[p] EXCEPT !.reads = @ + 1,
                               !.original_url = urls[loc[p].original_id].original_url,
                               !.clicks = urls[loc[p].original_id].clicks])
     \/ /\ loc[p].original_id \notin DOMAIN urls
        /\ Return(p, req[p], [loc[p] EXCEPT !.reads = @ + 1], Response(404, "URL not found", ""))
        /\ UNCHANGED <<errors_total, checked_out, cf_checked_out>>
     \/ Raise(p)
  /\ UNCHANGED <<cfgvars, poolvars, dbvars, session, gcs, tmp, requests_total, requests_begun,
                 cf_requests, histvars>>

\* SELECT original_url, clicks FROM urls WHERE id = %s
url_redirect_select(p) ==
  /\ pc[p] = "rd_select"
  /\ \/ /\ loc[p].original_id \in DOMAIN urls
        /\ Step(p, "rd_update",
                [loc[p] EXCEPT !.reads = @ + 1,
                               !.original_url = urls[loc[p].original_id].original_url,
                               !.clicks = urls[loc[p].original_id].clicks])
     \/ /\ loc[p].original_id \notin DOMAIN urls
        /\ Done(p, req[p], [loc[p] EXCEPT !.reads = @ + 1], Response(404, "URL not found", ""))
     \/ Raise(p)
  /\ UNCHANGED <<cfgvars, poolvars, dbvars, session, gcs, tmp, requests_total, requests_begun,
                 cf_requests, histvars>>

\* mutant: the count read is written back unchanged
url_redirect_update_keep(p) ==
  /\ pc[p] = "rd_update"
  /\ \/ Step(p, "rd_commit",
             [loc[p] EXCEPT !.writes = @ + 1,
                            !.txn = [NoTxn EXCEPT !.op = "update_clicks",
                                                  !.id = loc[p].original_id,
                                                  !.clicks = loc[p].clicks]])
     \/ Raise(p)
  /\ UNCHANGED <<cfgvars, poolvars, dbvars, session, gcs, tmp, requests_total, requests_begun,
                 cf_requests, histvars>>

\* mutant: the redirect is sent once the UPDATE has run, with no commit
url_redirect_update_answer(p) ==
  /\ pc[p] = "rd_update"
  /\ \/ Done(p, req[p], [loc[p] EXCEPT !.writes = @ + 1],
             [Response(302, "original_url", "") EXCEPT !.location = loc[p].original_url])
     \/ Raise(p)
  /\ UNCHANGED <<cfgvars, poolvars, dbvars, session, gcs, tmp, requests_total, requests_begun,
                 cf_requests, histvars>>

\* UPDATE urls SET clicks = %s WHERE id = %s with (clicks + 1, original_id)
url_redirect_update(p) ==
  /\ pc[p] = "rd_update"
  /\ \/ Step(p, "rd_commit",
             [loc[p] EXCEPT !.writes = @ + 1,
                            !.txn = [NoTxn EXCEPT !.op = "update_clicks",
                                                  !.id = loc[p].original_id,
                                                  !.clicks = loc[p].clicks + 1]])
     \/ Raise(p)
  /\ UNCHANGED <<cfgvars, poolvars, dbvars, session, gcs, tmp, requests_total, requests_begun,
                 cf_requests, histvars>>

\* the committed urls table after a transaction's write is applied
ApplyUrls(txn) ==
  CASE txn.op = "update_clicks" -> [urls EXCEPT ![txn.id].clicks = txn.clicks]
    [] txn.op = "insert_url" ->
         urls @@ (txn.id :> [original_url |-> txn.original_url, user_id |-> txn.user_id,
                             clicks |-> ClicksDefault])
    [] OTHER -> urls

\* the committed users table after a transaction's write is applied
ApplyUsers(txn) ==
  IF txn.op = "insert_user"
  THEN users @@ (txn.id :> [username |-> txn.username, password |-> txn.password])
  ELSE users

\* mutant: the store adds one to the count it holds (clicks = clicks + 1)
url_redirect_commit_atomic(p) ==
  /\ pc[p] = "rd_commit"
  /\ \/ /\ urls' = [urls EXCEPT ![loc[p].txn.id].clicks = @ + 1]
        /\ Done(p, req[p], [loc[p] EXCEPT !.commits = @ + 1, !.txn = NoTxn],
                [Response(302, "original_url", "") EXCEPT !.location = loc[p].original_url])
        /\ NoteAnswered(loc[p].original_id)
     \/ \E applied \in BOOLEAN :
          /\ urls' = IF applied THEN [urls EXCEPT ![loc[p].txn.id].clicks = @ + 1] ELSE urls
          /\ Raise(p)
          /\ NoteUnknown(loc[p].original_id, applied)
  /\ UNCHANGED <<cfgvars, poolvars, users, autoinc, session, gcs, tmp, requests_total, requests_begun,
                 cf_requests, clicks0, submitted, registrations>>

\* conn.commit(), then redirect(original_url)
url_redirect_commit(p) ==
  /\ pc[p] = "rd_commit"
  /\ \/ /\ urls' = ApplyUrls(loc[p].txn)
        /\ Done(p, req[p], [loc[p] EXCEPT !.commits = @ + 1, !.txn = NoTxn],
                [Response(302, "original_url", "") EXCEPT !.location = loc[p].original_url])
        /\ NoteAnswered(loc[p].original_id)
     \/ \* the commit raises; the server may or may not have applied it
        \E applied \in BOOLEAN :
          /\ urls' = IF applied THEN ApplyUrls(loc[p].txn) ELSE urls
          /\ Raise(p)
          /\ NoteUnknown(loc[p].original_id, applied)
  /\ UNCHANGED <<cfgvars, poolvars, users, autoinc, session, gcs, tmp, requests_total, requests_begun,
                 cf_requests, clicks0, submitted, registrations>>

(***************************************************************************)
(* The cloud function url_redirect(request).                               *)
(***************************************************************************)
cf_begin(p, hashid) ==
  /\ Free(p)
  /\ Budget
  /\ cf_requests' = cf_requests + 1
  /\ LET request == [NoReq EXCEPT !.kind = "cf_redirect", !.method = "GET", !.id = hashid]
         decoded == decode(hashid)
     IN  IF Len(hashid) = 0
         THEN /\ Return(p, request, NoLoc, Response(404, "Invalid URL: hashid missing", ""))
              /\ UNCHANGED redirects
         ELSE IF Len(decoded) = 0
         THEN /\ Return(p, request, NoLoc, Response(404, "Invalid URL", ""))
              /\ UNCHANGED redirects
         ELSE /\ pc' = [pc EXCEPT ![p] = "cf_connect"]
              /\ req' = [req EXCEPT ![p] = request]
              /\ loc' = [loc EXCEPT ![p] = [NoLoc EXCEPT !.original_id = decoded[1]]]
              /\ NoteBegun(decoded[1])
              /\ UNCHANGED last
  /\ UNCHANGED <<cfgvars, poolvars, checked_out, cf_checked_out, dbvars, session,
                 gcs, tmp, requests_total, requests_begun, errors_total, clicks0, submitted, registrations>>

\* "pool = get_db_pool()", whose test finds None, or "conn = pool.connection()"
\* on the pool that exists; a failure is answered 500 by the outer except
cf_connect(p) ==
  /\ pc[p] = "cf_connect"
  /\ ~loc[p].pool_init
  /\ \/ /\ ~cf_db_pool
        /\ Goto(p, "cf_connect", [loc[p] EXCEPT !.pool_init = TRUE])
        /\ UNCHANGED cf_checked_out
     \/ /\ cf_db_pool
        /\ DrawnCf(pools_created.cf) < env.CF_POOL_MAX_SIZE
        /\ cf_checked_out' = cf_checked_out + 1
        /\ Goto(p, "cf_select",
                [loc[p] EXCEPT !.conn = TRUE, !.acquired = @ + 1, !.pool = pools_created.cf])
     \/ /\ cf_db_pool
        /\ Return(p, req[p], loc[p], Response(500, "Error", ""))
        /\ UNCHANGED cf_checked_out
  /\ UNCHANGED <<cfgvars, poolvars, checked_out, dbvars, session, gcs, tmp, requests_total, requests_begun,
                 errors_total, cf_requests, histvars>>

\* the body of get_db_pool after its test found None: the configuration is
\* missing or the constructor raises (500), or "_db_pool = PooledDB(...)"
\* constructs a pool object and assigns it and the connection is drawn from it
get_db_pool(p) ==
  /\ pc[p] = "cf_connect"
  /\ loc[p].pool_init
  /\ \/ /\ cf_db_pool' = TRUE
        /\ pools_created' = [pools_created EXCEPT !.cf = @ + 1]
        /\ cf_checked_out' = cf_checked_out + 1
        /\ Goto(p, "cf_select",
                [loc[p] EXCEPT !.conn = TRUE, !.acquired = @ + 1, !.pool_init = FALSE,
                               !.pool = pools_created.cf + 1])
     \/ /\ UNCHANGED <<cf_db_pool, pools_created, cf_checked_out>>
        /\ Return(p, req[p], loc[p], Response(500, "Error", ""))
     \/ /\ cf_db_pool' = TRUE
        /\ pools_created' = [pools_created EXCEPT !.cf = @ + 1]
        /\ Return(p, req[p], loc[p], Response(500, "Error", ""))
        /\ UNCHANGED cf_checked_out
  /\ UNCHANGED <<cfgvars, db_pool, checked_out, dbvars, session, gcs, tmp, requests_total, requests_begun,
                 errors_total, cf_requests, histvars>>

\* "except pymysql.Error" of the cloud function: rollback, 500, finally close
CfRaise(p) ==
  /\ Close(p)
  /\ Return(p, req[p], [loc[p] EXCEPT !.rollbacks = @ + 1, !.txn = NoTxn],
            ErrorResponse("cf_redirect"))

cf_select(p) ==
  /\ pc[p] = "cf_select"
  /\ \/ /\ loc[p].original_id \in DOMAIN urls
        /\ Goto(p, "cf_update",
                [loc[p] EXCEPT !.reads = @ + 1,
                               !.original_url = urls[loc[p].original_id].original_url,
                               !.clicks = urls[loc[p].original_id].clicks])
        /\ UNCHANGED <<checked_out, cf_checked_out>>
     \/ /\ loc[p].original_id \notin DOMAIN urls
        /\ Return(p, req[p], [loc[p] EXCEPT !.reads = @ + 1],
                  Response(404, "URL not found", ""))
        /\ Close(p)
     \/ CfRaise(p)
  /\ UNCHANGED <<cfgvars, poolvars, dbvars, session, gcs, tmp, requests_total, requests_begun,
                 errors_total, cf_requests, histvars>>

\* mutant: the cloud function writes the count it read back unchanged
cf_update_keep(p) ==
  /\ pc[p] = "cf_update"
  /\ \/ /\ Goto(p, "cf_commit",
                [loc[p] EXCEPT !.writes = @ + 1,
                               !.txn = [NoTxn EXCEPT !.op = "update_clicks",
                                                     !.id = loc[p].original_id,
                                                     !.clicks = loc[p].clicks]])
        /\ UNCHANGED <<checked_out, cf_checked_out>>
     \/ CfRaise(p)
  /\ UNCHANGED <<cfgvars, poolvars, dbvars, session, gcs, tmp, requests_total, requests_begun,
                 errors_total, cf_requests, histvars>>

\* UPDATE urls SET clicks = %s WHERE id = %s with (clicks + 1, url_id)
cf_update(p) ==
  /\ pc[p] = "cf_update"
  /\ \/ /\ Goto(p, "cf_commit",
                [loc[p] EXCEPT !.writes = @ + 1,
                               !.txn = [NoTxn EXCEPT !.op = "update_clicks",
                                                     !.id = loc[p].original_id,
                                                     !.clicks = loc[p].clicks + 1]])
        /\ UNCHANGED <<checked_out, cf_checked_out>>
     \/ CfRaise(p)
  /\ UNCHANGED <<cfgvars, poolvars, dbvars, session, gcs, tmp, requests_total, requests_begun,
                 errors_total, cf_requests, histvars>>

cf_commit(p) ==
  /\ pc[p] = "cf_commit"
  /\ \/ /\ urls' = ApplyUrls(loc[p].txn)
        /\ Return(p, req[p], [loc[p] EXCEPT !.commits = @ + 1, !.txn = NoTxn],
                  [Response(302, "original_url", "") EXCEPT !.location = loc[p].original_url])
        /\ Close(p)
        /\ NoteAnswered(loc[p].original_id)
     \/ \E applied \in BOOLEAN :
          /\ urls' = IF applied THEN ApplyUrls(loc[p].txn) ELSE urls
          /\ CfRaise(p)
          /\ NoteUnknown(loc[p].original_id, applied)
  /\ UNCHANGED <<cfgvars, poolvars, users, autoinc, session, gcs, tmp, requests_total, requests_begun,
                 errors_total, cf_requests, clicks0, submitted, registrations>>

(***************************************************************************)
(* GET/POST / : index, insert_url and get_short_url.                       *)
(***************************************************************************)
\* mutant: the form value is used as typed, without strip()
index_begin_raw(p, c, method, url) ==
  /\ Free(p)
  /\ Budget
  /\ requests_total' = requests_total + 1
  /\ requests_begun' = requests_begun + 1
  /\ LET request == [NoReq EXCEPT !.kind = "index", !.client = c, !.method = method, !.url = url,
                                  !.user_id = session[c].user_id]
     IN  IF session[c].user_id = 0
         THEN Return(p, request, NoLoc,
                     FlashRedirect("login", "You must be logged in to access this page."))
         ELSE IF method = "GET"
         THEN Return(p, request, NoLoc, Response(200, "index.html", ""))
         ELSE IF url = <<>>
         THEN Return(p, request, NoLoc, FlashRedirect("index", "The URL is required!"))
         ELSE /\ pc' = [pc EXCEPT ![p] = "ins_connect"]
              /\ req' = [req EXCEPT ![p] = request]
              /\ loc' = [loc EXCEPT ![p] = [NoLoc EXCEPT !.url = url,
                                                         !.user_id = session[c].user_id]]
              /\ UNCHANGED last
  /\ UNCHANGED <<cfgvars, poolvars, checked_out, cf_checked_out, dbvars, session,
                 gcs, tmp, errors_total, cf_requests, histvars>>

\* mutant: the submitted URL is not validated
index_begin_unvalidated(p, c, method, url) ==
  /\ Free(p)
  /\ Budget
  /\ requests_total' = requests_total + 1
  /\ requests_begun' = requests_begun + 1
  /\ LET request == [NoReq EXCEPT !.kind = "index", !.client = c, !.method = method, !.url = url,
                                  !.user_id = session[c].user_id]
     IN  IF session[c].user_id = 0
         THEN Return(p, request, NoLoc,
                     FlashRedirect("login", "You must be logged in to access this page."))
         ELSE IF method = "GET"
         THEN Return(p, request, NoLoc, Response(200, "index.html", ""))
         ELSE /\ pc' = [pc EXCEPT ![p] = "ins_connect"]
              /\ req' = [req EXCEPT ![p] = request]
              /\ loc' = [loc EXCEPT ![p] = [NoLoc EXCEPT !.url = strip(url),
                                                         !.user_id = session[c].user_id]]
              /\ UNCHANGED last
  /\ UNCHANGED <<cfgvars, poolvars, checked_out, cf_checked_out, dbvars, session,
                 gcs, tmp, errors_total, cf_requests, histvars>>

\* mutant: only GET checks the session
index_begin_open(p, c, method, url) ==
  /\ Free(p)
  /\ Budget
  /\ requests_total' = requests_total + 1
  /\ requests_begun' = requests_begun + 1
  /\ LET request == [NoReq EXCEPT !.kind = "index", !.client = c, !.method = method, !.url = url,
                                  !.user_id = session[c].user_id]
     IN  IF session[c].user_id = 0 /\ method = "GET"
         THEN Return(p, request, NoLoc,
                     FlashRedirect("login", "You must be logged in to access this page."))
         ELSE IF method = "GET"
         THEN Return(p, request, NoLoc, Response(200, "index.html", ""))
         ELSE IF strip(url) = <<>>
         THEN Return(p, request, NoLoc, FlashRedirect("index", "The URL is required!"))
         ELSE /\ pc' = [pc EXCEPT ![p] = "ins_connect"]
              /\ req' = [req EXCEPT ![p] = request]
              /\ loc' = [loc EXCEPT ![p] = [NoLoc EXCEPT !.url = strip(url),
                                                         !.user_id = session[c].user_id]]
              /\ UNCHANGED last
  /\ UNCHANGED <<cfgvars, poolvars, checked_out, cf_checked_out, dbvars, session,
                 gcs, tmp, errors_total, cf_requests, histvars>>

index_begin(p, c, method, url) ==
  /\ Free(p)
  /\ Budget
  /\ requests_total' = requests_total + 1
  /\ requests_begun' = requests_begun + 1
  /\ LET request == [NoReq EXCEPT !.kind = "index", !.client = c, !.method = method, !.url = url,
                                  !.user_id = session[c].user_id]
     IN  IF session[c].user_id = 0
         THEN Return(p, request, NoLoc,
                     FlashRedirect("login", "You must be logged in to access this page."))
         ELSE IF method = "GET"
         THEN Return(p, request, NoLoc, Response(200, "index.html", ""))
         ELSE IF strip(url) = <<>>
         THEN Return(p, request, NoLoc, FlashRedirect("index", "The URL is required!"))
         ELSE /\ pc' = [pc EXCEPT ![p] = "ins_connect"]
              /\ req' = [req EXCEPT ![p] = request]
              /\ loc' = [loc EXCEPT ![p] = [NoLoc EXCEPT !.url = strip(url),
                                                         !.user_id = session[c].user_id]]
              /\ UNCHANGED last
  /\ UNCHANGED <<cfgvars, poolvars, checked_out, cf_checked_out, dbvars, session,
                 gcs, tmp, errors_total, cf_requests, histvars>>

\* INSERT INTO urls (original_url, user_id) VALUES (%s, %s)
insert_url_execute(p) ==
  /\ pc[p] = "ins_execute"
  /\ \/ /\ autoinc' = [autoinc EXCEPT !.urls = @ + 1]
        /\ Step(p, "ins_commit",
                [loc[p] EXCEPT !.writes = @ + 1,
                               !.txn = [NoTxn EXCEPT !.op = "insert_url", !.id = autoinc.urls,
                                                     !.original_url = loc[p].url,
                                                     !.user_id = loc[p].user_id]])
     \/ /\ Raise(p)
        /\ UNCHANGED autoinc
  /\ UNCHANGED <<cfgvars, poolvars, users, urls, session, gcs, tmp, requests_total, requests_begun,
                 cf_requests, histvars>>

\* get_short_url: the code and the base it is shown under
ShortUrlResponse(url_id, image_path) ==
  [Response(200, "index.html", "") EXCEPT
     !.short_url = encode(url_id),
     !.short_base = IF Forwarding THEN "cloud_function" ELSE "host_url",
     !.image_path = image_path]

\* mutant: a commit that raises is followed by a second INSERT and commit
insert_url_commit_retry(p) ==
  /\ pc[p] = "ins_commit"
  /\ \/ /\ urls' = ApplyUrls(loc[p].txn)
        /\ submitted' = submitted @@ (encode(loc[p].txn.id) :> req[p].url)
        /\ UNCHANGED autoinc
     \/ /\ autoinc.urls \in UrlIds
        /\ urls' = ApplyUrls(loc[p].txn) @@
                     (autoinc.urls :> [original_url |-> loc[p].txn.original_url,
                                       user_id |-> loc[p].txn.user_id, clicks |-> ClicksDefault])
        /\ autoinc' = [autoinc EXCEPT !.urls = @ + 1]
        /\ submitted' = submitted @@ (encode(autoinc.urls) :> req[p].url)
  /\ Close(p)
  /\ Goto(p, "qr_generate",
          [loc[p] EXCEPT !.commits = @ + 1, !.url_id = loc[p].txn.id, !.txn = NoTxn,
                         !.conn = FALSE])
  /\ UNCHANGED <<cfgvars, poolvars, users, session, gcs, tmp, errors_total,
                 requests_total, requests_begun, cf_requests, clicks0, redirects, registrations>>

\* conn.commit(); url_id = cursor.lastrowid; insert_url returns and the
\* connection goes back to the pool
insert_url_commit(p) ==
  /\ pc[p] = "ins_commit"
  /\ \/ /\ urls' = ApplyUrls(loc[p].txn)
        /\ submitted' = submitted @@ (encode(loc[p].txn.id) :> req[p].url)
        /\ Close(p)
        /\ Goto(p, "qr_generate",
                [loc[p] EXCEPT !.commits = @ + 1, !.url_id = loc[p].txn.id, !.txn = NoTxn,
                               !.conn = FALSE])
        /\ UNCHANGED errors_total
     \/ /\ urls' \in {urls, ApplyUrls(loc[p].txn)}
        /\ Raise(p)
        /\ UNCHANGED submitted
  /\ UNCHANGED <<cfgvars, poolvars, users, autoinc, session, gcs, tmp,
                 requests_total, requests_begun, cf_requests, clicks0, redirects, registrations>>

\* qr_path = generate_qr_code(short_url, hashid): the image is saved as
\* {hashid}.png in the temporary directory, or an exception is counted and the
\* path is None; without a path or without a bucket the page is rendered at once
generate_qr_code(p) ==
  /\ pc[p] = "qr_generate"
  /\ \/ /\ tmp' = tmp \cup {encode(loc[p].url_id)}
        /\ UNCHANGED errors_total
        /\ IF gcs_bucket_name # ""
           THEN Goto(p, "qr_upload", [loc[p] EXCEPT !.qr_path = TRUE])
           ELSE Return(p, req[p], [loc[p] EXCEPT !.qr_path = TRUE],
                       ShortUrlResponse(loc[p].url_id, "None"))
     \/ /\ tmp' = tmp
        /\ errors_total' = errors_total + 1
        /\ Return(p, req[p], loc[p], ShortUrlResponse(loc[p].url_id, "None"))
  /\ UNCHANGED <<cfgvars, poolvars, checked_out, cf_checked_out, dbvars, session,
                 gcs, requests_total, requests_begun, cf_requests, histvars>>

\* mutant: the blob is named by the code alone, without ".png"
upload_to_gcs_bare(p) ==
  /\ pc[p] = "qr_upload"
  /\ LET blob_name == encode(loc[p].url_id)
         locals    == [loc[p] EXCEPT !.uploads = @ + 1]
     IN  /\ \/ /\ ~gcs_client
               /\ UNCHANGED <<gcs, errors_total>>
               /\ Return(p, req[p], loc[p], ShortUrlResponse(loc[p].url_id, "None"))
            \/ /\ gcs_client
               /\ gcs' = gcs \cup {blob_name}
               /\ UNCHANGED errors_total
               /\ Return(p, req[p], locals, ShortUrlResponse(loc[p].url_id, "public_url"))
            \/ /\ gcs_client
               /\ gcs' \in {gcs, gcs \cup {blob_name}}
               /\ errors_total' = errors_total + 1
               /\ Return(p, req[p], locals, ShortUrlResponse(loc[p].url_id, "None"))
         /\ tmp' \in {tmp \ {encode(loc[p].url_id)}, tmp}
  /\ UNCHANGED <<cfgvars, poolvars, checked_out, cf_checked_out, dbvars, session,
                 requests_total, requests_begun, cf_requests, histvars>>

\* mutant: an exception of the upload is not caught and reaches the handler
upload_to_gcs_raise(p) ==
  /\ pc[p] = "qr_upload"
  /\ LET blob_name == PngName(encode(loc[p].url_id))
         locals    == [loc[p] EXCEPT !.uploads = @ + 1]
     IN  /\ \/ /\ ~gcs_client
               /\ UNCHANGED <<gcs, errors_total>>
               /\ Return(p, req[p], loc[p], ShortUrlResponse(loc[p].url_id, "None"))
            \/ /\ gcs_client
               /\ gcs' = gcs \cup {blob_name}
               /\ UNCHANGED errors_total
               /\ Return(p, req[p], locals, ShortUrlResponse(loc[p].url_id, "public_url"))
            \/ /\ gcs_client
               /\ gcs' \in {gcs, gcs \cup {blob_name}}
               /\ errors_total' = errors_total + 1
               /\ Return(p, req[p], locals, ErrorResponse("index"))
         /\ tmp' \in {tmp \ {encode(loc[p].url_id)}, tmp}
  /\ UNCHANGED <<cfgvars, poolvars, checked_out, cf_checked_out, dbvars, session,
                 requests_total, requests_begun, cf_requests, histvars>>

\* result = upload_to_gcs(qr_path, gcs_bucket_name, blob_name), then the
\* temporary file is removed (a failure to remove it is logged) and the page is
\* rendered with the public URL, or with None when the upload failed
upload_to_gcs(p) ==
  /\ pc[p] = "qr_upload"
  /\ LET blob_name == PngName(encode(loc[p].url_id))
         locals    == [loc[p] EXCEPT !.uploads = @ + 1]
     IN  /\ \/ /\ ~gcs_client
               /\ UNCHANGED <<gcs, errors_total>>
               /\ Return(p, req[p], loc[p], ShortUrlResponse(loc[p].url_id, "None"))
            \/ /\ gcs_client
               /\ gcs' = gcs \cup {blob_name}
               /\ UNCHANGED errors_total
               /\ Return(p, req[p], locals, ShortUrlResponse(loc[p].url_id, "public_url"))
            \/ /\ gcs_client
               /\ gcs' \in {gcs, gcs \cup {blob_name}}
               /\ errors_total' = errors_total + 1
               /\ Return(p, req[p], locals, ShortUrlResponse(loc[p].url_id, "None"))
         /\ tmp' \in {tmp \ {encode(loc[p].url_id)}, tmp}
  /\ UNCHANGED <<cfgvars, poolvars, checked_out, cf_checked_out, dbvars, session,
                 requests_total, requests_begun, cf_requests, histvars>>

(***************************************************************************)
(* GET /stats.                                                             *)
(***************************************************************************)
RECURSIVE DescSeq(_)
\* ORDER BY id DESC
DescSeq(S) ==
  IF S = {} THEN <<>>
  ELSE LET m == CHOOSE x \in S : \A y \in S : y <= x
       IN  <<m>> \o DescSeq(S \ {m})

\* reversed(rows)
Reversed(s) == [i \in 1..Len(s) |-> s[Len(s) + 1 - i]]

RECURSIVE SumClicks(_)
\* COALESCE(SUM(clicks), 0)
SumClicks(S) ==
  IF S = {} THEN 0
  ELSE LET i == CHOOSE x \in S : TRUE IN urls[i].clicks + SumClicks(S \ {i})

stats_begin(p, c) ==
  /\ Free(p)
  /\ Budget
  /\ requests_total' = requests_total + 1
  /\ requests_begun' = requests_begun + 1
  /\ LET request == [NoReq EXCEPT !.kind = "stats", !.client = c, !.method = "GET",
                                  !.user_id = session[c].user_id]
     IN  IF session[c].user_id = 0
         THEN Return(p, request, NoLoc,
                     FlashRedirect("login", "You must be logged in to access this page."))
         ELSE /\ pc' = [pc EXCEPT ![p] = "st_connect"]
              /\ req' = [req EXCEPT ![p] = request]
              /\ loc' = [loc EXCEPT ![p] = [NoLoc EXCEPT !.user_id = session[c].user_id]]
              /\ UNCHANGED last
  /\ UNCHANGED <<cfgvars, poolvars, checked_out, cf_checked_out, dbvars, session,
                 gcs, tmp, errors_total, cf_requests, histvars>>

RECURSIVE AscSeq(_)
\* ORDER BY id ASC
AscSeq(S) ==
  IF S = {} THEN <<>>
  ELSE LET m == CHOOSE x \in S : \A y \in S : x <= y
       IN  <<m>> \o AscSeq(S \ {m})

\* the first limit elements of rows: LIMIT %s
Limit(rows, limit) == SubSeq(rows, 1, IF Len(rows) < limit THEN Len(rows) ELSE limit)

\* the rows of the page, in the order the template receives them
UrlData(shown) == [k \in 1..Len(shown) |-> [id |-> shown[k], clicks |-> urls[shown[k]].clicks]]

\* mutant: the queries have no "WHERE user_id = %s"
StatsPage_all_users(user_id) ==
  LET mine         == DOMAIN urls
      total_count  == Cardinality(mine)
      total_clicks == SumClicks(mine)
      db_urls      == Limit(DescSeq(mine), MAX_TABLE_ITEMS)
      shown        == Reversed(db_urls)
  IN  [Response(200, "stats.html", "") EXCEPT
         !.total_urls = total_count,
         !.total_clicks = total_clicks,
         !.average_clicks = IF total_count > 0 THEN total_clicks \div total_count ELSE 0,
         !.urls = UrlData(shown)]

\* mutant: the average is taken over the rows displayed
StatsPage_avg_shown(user_id) ==
  LET mine         == {i \in DOMAIN urls : urls[i].user_id = user_id}
      total_count  == Cardinality(mine)
      total_clicks == SumClicks(mine)
      db_urls      == Limit(DescSeq(mine), MAX_TABLE_ITEMS)
      shown        == Reversed(db_urls)
  IN  [Response(200, "stats.html", "") EXCEPT
         !.total_urls = total_count,
         !.total_clicks = total_clicks,
         !.average_clicks = IF Len(shown) > 0
                            THEN SumClicks(Range(shown)) \div Len(shown) ELSE 0,
         !.urls = UrlData(shown)]

\* mutant: the listing query orders by id ASC
StatsPage_asc_query(user_id) ==
  LET mine         == {i \in DOMAIN urls : urls[i].user_id = user_id}
      total_count  == Cardinality(mine)
      total_clicks == SumClicks(mine)
      db_urls      == Limit(AscSeq(mine), MAX_TABLE_ITEMS)
      shown        == Reversed(db_urls)
  IN  [Response(200, "stats.html", "") EXCEPT
         !.total_urls = total_count,
         !.total_clicks = total_clicks,
         !.average_clicks = IF total_count > 0 THEN total_clicks \div total_count ELSE 0,
         !.urls = UrlData(shown)]

\* the totals query, the listing query (ORDER BY id DESC LIMIT MAX_TABLE_ITEMS),
\* the rows reversed for display and the integer average
StatsPage(user_id) ==
  LET mine         == {i \in DOMAIN urls : urls[i].user_id = user_id}
      total_count  == Cardinality(mine)
      total_clicks == SumClicks(mine)
      db_urls      == Limit(DescSeq(mine), MAX_TABLE_ITEMS)
      shown        == Reversed(db_urls)
  IN  [Response(200, "stats.html", "") EXCEPT
         !.total_urls = total_count,
         !.total_clicks = total_clicks,
         !.average_clicks = IF total_count > 0 THEN total_clicks \div total_count ELSE 0,
         !.urls = UrlData(shown)]

\* both queries run on one connection; then the page is rendered
stats_query(p) ==
  /\ pc[p] = "st_query"
  /\ \/ Done(p, req[p], [loc[p] EXCEPT !.reads = @ + 2], StatsPage(loc[p].user_id))
     \/ Raise(p)
  /\ UNCHANGED <<cfgvars, poolvars, dbvars, session, gcs, tmp, requests_total, requests_begun,
                 cf_requests, histvars>>

(***************************************************************************)
(* GET/POST /register.                                                     *)
(***************************************************************************)
register_begin(p, c, method, username, password, confirm_password) ==
  /\ Free(p)
  /\ Budget
  /\ requests_total' = requests_total + 1
  /\ requests_begun' = requests_begun + 1
  /\ LET request == [NoReq EXCEPT !.kind = "register", !.client = c, !.method = method,
                                  !.username = username, !.password = password,
                                  !.confirm_password = confirm_password]
     IN  IF method = "GET"
         THEN /\ Return(p, request, NoLoc, Response(200, "register.html", ""))
              /\ UNCHANGED registrations
         ELSE IF username = "" \/ password = "" \/ confirm_password = ""
         THEN /\ Return(p, request, NoLoc, FlashRedirect("register", "All fields are required."))
              /\ UNCHANGED registrations
         ELSE IF password # confirm_password
         THEN /\ Return(p, request, NoLoc, FlashRedirect("register", "Passwords do not match."))
              /\ UNCHANGED registrations
         ELSE /\ pc' = [pc EXCEPT ![p] = "rg_connect"]
              /\ req' = [req EXCEPT ![p] = request]
              /\ loc' = [loc EXCEPT ![p] =
                           [NoLoc EXCEPT !.prior_ok = registrations[username].ok > 0]]
              /\ registrations' =
                   [registrations EXCEPT ![username].begun = @ + 1,
                                         ![username].overlapped = @ \/ Registering(username) # {}]
              /\ UNCHANGED last
  /\ UNCHANGED <<cfgvars, poolvars, checked_out, cf_checked_out, dbvars, session,
                 gcs, tmp, errors_total, cf_requests, clicks0, redirects, submitted>>

\* mutant: the result of the uniqueness query is ignored
register_select_unchecked(p) ==
  /\ pc[p] = "rg_select"
  /\ \/ Step(p, "rg_insert", [loc[p] EXCEPT !.reads = @ + 1])
     \/ Raise(p)
  /\ UNCHANGED <<cfgvars, poolvars, dbvars, session, gcs, tmp, requests_total, requests_begun,
                 cf_requests, histvars>>

\* SELECT id FROM users WHERE username = %s
register_select(p) ==
  /\ pc[p] = "rg_select"
  /\ \/ /\ RowsNamed(req[p].username) # {}
        /\ Done(p, req[p], [loc[p] EXCEPT !.reads = @ + 1],
                FlashRedirect("register",
                              "Username already exists. Please choose a different username."))
     \/ /\ RowsNamed(req[p].username) = {}
        /\ Step(p, "rg_insert", [loc[p] EXCEPT !.reads = @ + 1])
     \/ Raise(p)
  /\ UNCHANGED <<cfgvars, poolvars, dbvars, session, gcs, tmp, requests_total, requests_begun,
                 cf_requests, histvars>>

\* workers whose open transaction holds an uncommitted users row of this name
PendingInsert(username) ==
  {q \in Procs : loc[q].txn.op = "insert_user" /\ loc[q].txn.username = username}

\* users.username UNIQUE: a new row is admitted when no committed or uncommitted
\* row has its name
UniqueAdmits(username) ==
  username_unique => RowsNamed(username) = {} /\ PendingInsert(username) = {}

\* mutant: a failed INSERT is swallowed and the success page is shown
register_insert_swallow(p) ==
  /\ pc[p] = "rg_insert"
  /\ \/ /\ UniqueAdmits(req[p].username)
        /\ autoinc' = [autoinc EXCEPT !.users = @ + 1]
        /\ Step(p, "rg_commit",
                [loc[p] EXCEPT !.writes = @ + 1,
                               !.txn = [NoTxn EXCEPT !.op = "insert_user", !.id = autoinc.users,
                                                     !.username = req[p].username,
                                                     !.password = sha256(req[p].password)]])
     \/ /\ Done(p, req[p], loc[p],
                FlashRedirect("login", "Registration successful! You can now log in."))
        /\ UNCHANGED autoinc
  /\ UNCHANGED <<cfgvars, poolvars, users, urls, session, gcs, tmp, requests_total, requests_begun,
                 cf_requests, histvars>>

\* INSERT INTO users (username, password) VALUES (%s, %s) with the SHA-256 digest;
\* under a UNIQUE constraint the statement waits for an uncommitted row of the
\* same name and fails on a committed one
register_insert(p) ==
  /\ pc[p] = "rg_insert"
  /\ \/ /\ UniqueAdmits(req[p].username)
        /\ autoinc' = [autoinc EXCEPT !.users = @ + 1]
        /\ Step(p, "rg_commit",
                [loc[p] EXCEPT !.writes = @ + 1,
                               !.txn = [NoTxn EXCEPT !.op = "insert_user", !.id = autoinc.users,
                                                     !.username = req[p].username,
                                                     !.password = sha256(req[p].password)]])
     \/ /\ Raise(p)
        /\ UNCHANGED autoinc
  /\ UNCHANGED <<cfgvars, poolvars, users, urls, session, gcs, tmp, requests_total, requests_begun,
                 cf_requests, histvars>>

\* conn.commit(), then the success message
register_commit(p) ==
  /\ pc[p] = "rg_commit"
  /\ \/ /\ users' = ApplyUsers(loc[p].txn)
        /\ registrations' = [registrations EXCEPT ![req[p].username].ok = @ + 1]
        /\ Done(p, req[p], [loc[p] EXCEPT !.commits = @ + 1, !.txn = NoTxn],
                FlashRedirect("login", "Registration successful! You can now log in."))
     \/ /\ users' \in {users, ApplyUsers(loc[p].txn)}
        /\ Raise(p)
        /\ UNCHANGED registrations
  /\ UNCHANGED <<cfgvars, poolvars, urls, autoinc, session, gcs, tmp, requests_total, requests_begun,
                 cf_requests, clicks0, redirects, submitted>>

(***************************************************************************)
(* GET/POST /login and GET /logout.                                        *)
(***************************************************************************)
login_begin(p, c, method, username, password) ==
  /\ Free(p)
  /\ Budget
  /\ requests_total' = requests_total + 1
  /\ requests_begun' = requests_begun + 1
  /\ LET request == [NoReq EXCEPT !.kind = "login", !.client = c, !.method = method,
                                  !.username = username, !.password = password]
     IN  IF method = "GET"
         THEN Return(p, request, NoLoc, Response(200, "login.html", ""))
         ELSE IF username = "" \/ password = ""
         THEN Return(p, request, NoLoc, FlashRedirect("login", "All fields are required."))
         ELSE /\ pc' = [pc EXCEPT ![p] = "lg_connect"]
              /\ req' = [req EXCEPT ![p] = request]
              /\ loc' = [loc EXCEPT ![p] = NoLoc]
              /\ UNCHANGED last
  /\ UNCHANGED <<cfgvars, poolvars, checked_out, cf_checked_out, dbvars, session,
                 gcs, tmp, errors_total, cf_requests, histvars>>

\* mutant: the message tells whether the username exists
login_select_reveal(p) ==
  /\ pc[p] = "lg_select"
  /\ LET matching == {i \in DOMAIN users : /\ users[i].username = req[p].username
                                           /\ users[i].password = sha256(req[p].password)}
     IN  \/ /\ matching # {}
            /\ \E i \in matching :
                 /\ session' = [session EXCEPT ![req[p].client] =
                                  [user_id |-> i, username |-> users[i].username]]
                 /\ Done(p, req[p], [loc[p] EXCEPT !.reads = @ + 1, !.user_id = i],
                         FlashRedirect("index", "Login successful!"))
         \/ /\ matching = {}
            /\ UNCHANGED session
            /\ Done(p, req[p], [loc[p] EXCEPT !.reads = @ + 1],
                    FlashRedirect("login", IF RowsNamed(req[p].username) # {}
                                           THEN "Invalid password."
                                           ELSE "Invalid username."))
         \/ /\ UNCHANGED session
            /\ Raise(p)
  /\ UNCHANGED <<cfgvars, poolvars, dbvars, gcs, tmp, requests_total, requests_begun, cf_requests,
                 histvars>>

\* SELECT id, username FROM users WHERE username = %s AND password = %s
login_select(p) ==
  /\ pc[p] = "lg_select"
  /\ LET matching == {i \in DOMAIN users : /\ users[i].username = req[p].username
                                           /\ users[i].password = sha256(req[p].password)}
     IN  \/ /\ matching # {}
            /\ \E i \in matching :
                 /\ session' = [session EXCEPT ![req[p].client] =
                                  [user_id |-> i, username |-> users[i].username]]
                 /\ Done(p, req[p], [loc[p] EXCEPT !.reads = @ + 1, !.user_id = i],
                         FlashRedirect("index", "Login successful!"))
         \/ /\ matching = {}
            /\ UNCHANGED session
            /\ Done(p, req[p], [loc[p] EXCEPT !.reads = @ + 1],
                    FlashRedirect("login", "Invalid username or password."))
         \/ /\ UNCHANGED session
            /\ Raise(p)
  /\ UNCHANGED <<cfgvars, poolvars, dbvars, gcs, tmp, requests_total, requests_begun, cf_requests,
                 histvars>>

\* mutant: logout forgets the user_id and keeps the username in the session
logout_user_id_only(p, c) ==
  /\ Free(p)
  /\ Budget
  /\ requests_total' = requests_total + 1
  /\ requests_begun' = requests_begun + 1
  /\ session' = [session EXCEPT ![c].user_id = 0]
  /\ Return(p, [NoReq EXCEPT !.kind = "logout", !.client = c, !.method = "GET"], NoLoc,
            FlashRedirect("login", "You have been logged out."))
  /\ UNCHANGED <<cfgvars, poolvars, checked_out, cf_checked_out, dbvars, gcs, tmp,
                 errors_total, cf_requests, histvars>>

\* session.pop("user_id", None); session.pop("username", None)
logout(p, c) ==
  /\ Free(p)
  /\ Budget
  /\ requests_total' = requests_total + 1
  /\ requests_begun' = requests_begun + 1
  /\ session' = [session EXCEPT ![c] = NoSession]
  /\ Return(p, [NoReq EXCEPT !.kind = "logout", !.client = c, !.method = "GET"], NoLoc,
            FlashRedirect("login", "You have been logged out."))
  /\ UNCHANGED <<cfgvars, poolvars, checked_out, cf_checked_out, dbvars, gcs, tmp,
                 errors_total, cf_requests, histvars>>


(***************************************************************************)
(* GET /health.                                                            *)
(***************************************************************************)
\* mutant: the probe runs a query on a pooled connection
health_query(p) ==
  /\ Free(p)
  /\ Budget
  /\ requests_total' = requests_total + 1
  /\ requests_begun' = requests_begun + 1
  /\ \E reachable \in BOOLEAN :
       Return(p, [NoReq EXCEPT !.kind = "health", !.method = "GET"],
              [NoLoc EXCEPT !.acquired = IF db_pool THEN 1 ELSE 0,
                            !.reads = IF db_pool /\ reachable THEN 1 ELSE 0],
              IF db_pool /\ reachable
              THEN [Response(200, "healthy", "") EXCEPT !.database = "connected"]
              ELSE [Response(503, "unhealthy", "") EXCEPT !.database = "pool_not_initialized"])
  /\ UNCHANGED <<cfgvars, poolvars, checked_out, cf_checked_out, dbvars, session, gcs, tmp,
                 errors_total, cf_requests, histvars>>

\* db_status is "connected" when _db_pool is not None; "pool_not_initialized"
\* is answered 503 and "connected" 200; nothing else is consulted
health(p) ==
  /\ Free(p)
  /\ Budget
  /\ requests_total' = requests_total + 1
  /\ requests_begun' = requests_begun + 1
  /\ Return(p, [NoReq EXCEPT !.kind = "health", !.method = "GET"], NoLoc,
            IF db_pool
            THEN [Response(200, "healthy", "") EXCEPT !.database = "connected"]
            ELSE [Response(503, "unhealthy", "") EXCEPT !.database = "pool_not_initialized"])
  /\ UNCHANGED <<cfgvars, poolvars, checked_out, cf_checked_out, dbvars, session, gcs, tmp,
                 errors_total, cf_requests, histvars>>

(***************************************************************************)
(* GET /metrics, and the before_request hook that counts it.               *)
(* "_metrics['requests_total'] += 1" loads the item, adds one and stores   *)
(* the item; no lock is held, and the requests are handled by threads of   *)
(* one process, so other requests may run between the load and the store.  *)
(***************************************************************************)
\* before_request, first half: the request is taken by a worker, which loads
\* _metrics['requests_total']
before_request(p) ==
  /\ Free(p)
  /\ Budget
  /\ requests_begun' = requests_begun + 1
  /\ pc' = [pc EXCEPT ![p] = "before_request"]
  /\ req' = [req EXCEPT ![p] = [NoReq EXCEPT !.kind = "metrics", !.method = "GET"]]
  /\ loc' = [loc EXCEPT ![p] = [NoLoc EXCEPT !.requests_total = requests_total]]
  /\ UNCHANGED <<cfgvars, poolvars, checked_out, cf_checked_out, dbvars, session, gcs, tmp,
                 last, requests_total, errors_total, cf_requests, histvars>>

\* before_request, second half: the loaded value plus one is stored
before_request_store(p) ==
  /\ pc[p] = "before_request"
  /\ requests_total' = loc[p].requests_total + 1
  /\ pc' = [pc EXCEPT ![p] = "metrics"]
  /\ UNCHANGED <<cfgvars, poolvars, checked_out, cf_checked_out, dbvars, session, gcs, tmp,
                 req, loc, last, requests_begun, errors_total, cf_requests, histvars>>

\* the view: both counters are formatted into the text answered with 200
metrics(p) ==
  /\ pc[p] = "metrics"
  /\ Return(p, req[p], loc[p],
            [Response(200, "metrics", "") EXCEPT !.requests_total = requests_total,
                                                 !.errors_total = errors_total])
  /\ UNCHANGED <<cfgvars, poolvars, checked_out, cf_checked_out, dbvars, session, gcs, tmp,
                 requests_total, requests_begun, errors_total, cf_requests, histvars>>

(***************************************************************************)
(* GET /download-qr/<hashid>.                                              *)
(***************************************************************************)
\* without a client or a bucket 503; blob.exists() false 404; else the blob is
\* downloaded and served as {hashid}.png; an exception is counted and
\* answered 500.  The bucket is only read.
download_qr(p, hashid) ==
  /\ Free(p)
  /\ Budget
  /\ requests_total' = requests_total + 1
  /\ requests_begun' = requests_begun + 1
  /\ LET request == [NoReq EXCEPT !.kind = "download_qr", !.method = "GET", !.id = hashid]
     IN  \/ /\ ~gcs_client \/ gcs_bucket_name = ""
            /\ UNCHANGED errors_total
            /\ Return(p, request, NoLoc, Response(503, "QR code download not available", ""))
         \/ /\ gcs_client /\ gcs_bucket_name # ""
            /\ PngName(hashid) \notin gcs
            /\ UNCHANGED errors_total
            /\ Return(p, request, NoLoc, Response(404, "QR code not found", ""))
         \/ /\ gcs_client /\ gcs_bucket_name # ""
            /\ PngName(hashid) \in gcs
            /\ UNCHANGED errors_total
            /\ Return(p, request, NoLoc,
                      [Response(200, "image/png", "") EXCEPT !.location = PngName(hashid)])
         \/ /\ gcs_client /\ gcs_bucket_name # ""
            /\ errors_total' = errors_total + 1
            /\ Return(p, request, NoLoc, Response(500, "Error downloading QR code", ""))
  /\ UNCHANGED <<cfgvars, poolvars, checked_out, cf_checked_out, dbvars, session, gcs, tmp,
                 cf_requests, histvars>>
(***************************************************************************)
(* The system: any worker takes any step; a free worker takes a request.   *)
(***************************************************************************)
\* the codes of the links that exist and of the id issued next
IssuedCodes == {encode(i) : i \in {k \in UrlIds : k <= autoinc.urls}}

RedirectSteps(p) ==
  \/ url_redirect_select(p)
  \/ url_redirect_update(p)
  \/ url_redirect_commit(p)

CfSteps(p) ==
  \/ cf_connect(p)
  \/ get_db_pool(p)
  \/ cf_select(p)
  \/ cf_update(p)
  \/ cf_commit(p)

RegisterSteps(p) ==
  \/ register_select(p)
  \/ register_insert(p)
  \/ register_commit(p)

Init ==
  InitWith({LocalEnv}, {TRUE}, {TRUE}, {NoSession, Alice}, OneLink({ClicksDefault}),
           {BucketAndClient})

Next ==
  \/ \E p \in Procs : get_db_connection(p)
  \/ \E p \in Procs : \E id \in {encode(1), ForeignCode} : url_redirect_begin(p, id)
  \/ \E p \in Procs : RedirectSteps(p)
  \/ \E p \in Procs : \E hashid \in {encode(1)} : cf_begin(p, hashid)
  \/ \E p \in Procs : CfSteps(p)
  \/ \E p \in Procs, c \in Clients : \E method \in {"GET", "POST"} :
       index_begin(p, c, method, <<97>>)
  \/ \E p \in Procs : insert_url_execute(p)
  \/ \E p \in Procs : insert_url_commit(p)
  \/ \E p \in Procs : generate_qr_code(p)
  \/ \E p \in Procs : upload_to_gcs(p)
  \/ \E p \in Procs, c \in Clients : stats_begin(p, c)
  \/ \E p \in Procs : stats_query(p)
  \/ \E p \in Procs, c \in Clients : register_begin(p, c, "POST", "bob", "pw1", "pw1")
  \/ \E p \in Procs : RegisterSteps(p)
  \/ \E p \in Procs, c \in Clients : \E pw \in {"pw1", "pw2"} :
       login_begin(p, c, "POST", "alice", pw)
  \/ \E p \in Procs : login_select(p)
  \/ \E p \in Procs, c \in Clients : logout(p, c)

Spec == Init /\ [][Next]_vars

\* redirect requests only, with every kind of code, resolved locally
InitRedirect ==
  InitWith({LocalEnv}, {TRUE}, BOOLEAN, {NoSession}, OneLink({1}), {BucketAndClient})

NextRedirect ==
  \/ \E p \in Procs : get_db_connection(p)
  \/ \E p \in Procs : init_db_pool(p)
  \/ \E p \in Procs : \E id \in IssuedCodes \cup {ForeignCode, BadCharCode} :
       url_redirect_begin(p, id)
  \/ \E p \in Procs : RedirectSteps(p)
  \/ \E p \in Procs : \E hashid \in IssuedCodes \cup {ForeignCode, <<>>} :
       cf_begin(p, hashid)
  \/ \E p \in Procs : CfSteps(p)

SpecRedirect == InitRedirect /\ [][NextRedirect]_vars

\* redirect requests to the Flask application under every setting of the switch
InitForward ==
  InitWith(Envs, {TRUE}, BOOLEAN, {NoSession}, OneLink({ClicksDefault}), {BucketAndClient})

NextForward ==
  \/ \E p \in Procs : get_db_connection(p)
  \/ \E p \in Procs : init_db_pool(p)
  \/ \E p \in Procs : \E id \in IssuedCodes \cup {TwoNumberCode, ForeignCode} :
       url_redirect_begin(p, id)
  \/ \E p \in Procs : RedirectSteps(p)

SpecForward == InitForward /\ [][NextForward]_vars

\* a logged-in client shortens URLs and the codes issued are resolved
InitShorten ==
  InitWith({LocalEnv}, {TRUE}, {TRUE}, {Alice}, OneLink({ClicksDefault}), {BucketAndClient})

NextShorten ==
  \/ \E p \in Procs : get_db_connection(p)
  \/ \E p \in Procs, c \in Clients : \E url \in UrlInputs : index_begin(p, c, "POST", url)
  \/ \E p \in Procs : insert_url_execute(p)
  \/ \E p \in Procs : insert_url_commit(p)
  \/ \E p \in Procs : generate_qr_code(p)
  \/ \E p \in Procs : upload_to_gcs(p)
  \/ \E p \in Procs : \E id \in IssuedCodes : url_redirect_begin(p, id)
  \/ \E p \in Procs : RedirectSteps(p)

SpecShorten == InitShorten /\ [][NextShorten]_vars

\* one URL is shortened under every setting of the bucket and the storage
\* client, and the codes issued are resolved
InitQr ==
  InitWith({LocalEnv}, {TRUE}, {TRUE}, {Alice}, OneLink({ClicksDefault}), Stores)

NextQr ==
  \/ \E p \in Procs : get_db_connection(p)
  \/ \E p \in Procs, c \in Clients : index_begin(p, c, "POST", <<97>>)
  \/ \E p \in Procs : insert_url_execute(p)
  \/ \E p \in Procs : insert_url_commit(p)
  \/ \E p \in Procs : generate_qr_code(p)
  \/ \E p \in Procs : upload_to_gcs(p)
  \/ \E p \in Procs : \E id \in IssuedCodes : url_redirect_begin(p, id)
  \/ \E p \in Procs : RedirectSteps(p)

SpecQr == InitQr /\ [][NextQr]_vars

\* the rows a link of user 1 can be
LinkRows == [original_url : {<<97>>}, user_id : {1}, clicks : 0..2]

\* the urls tables of no link up to one link more than the page displays
StatsTables == UNION {[1..n -> LinkRows] : n \in 0..(MAX_TABLE_ITEMS + 1)}

\* the statistics page over every such table
InitStats ==
  InitWith({LocalEnv}, {TRUE}, {TRUE}, {Alice}, StatsTables, {BucketAndClient})

NextStats ==
  \/ \E p \in Procs : get_db_connection(p)
  \/ \E p \in Procs, c \in Clients : stats_begin(p, c)
  \/ \E p \in Procs : stats_query(p)

SpecStats == InitStats /\ [][NextStats]_vars

\* the registration forms clients send: the page itself, a new name, a taken
\* name, a missing field and two passwords that differ
RegisterForms ==
  {<<"GET", "", "", "">>, <<"POST", "bob", "pw1", "pw1">>, <<"POST", "alice", "pw1", "pw1">>,
   <<"POST", "", "pw1", "pw1">>, <<"POST", "bob", "pw1", "pw2">>}

\* registrations only, with and without the UNIQUE constraint
InitRegister ==
  InitWith({LocalEnv}, BOOLEAN, {TRUE}, {NoSession}, OneLink({ClicksDefault}),
           {BucketAndClient})

NextRegister ==
  \/ \E p \in Procs : get_db_connection(p)
  \/ \E p \in Procs, c \in Clients : \E form \in RegisterForms :
       register_begin(p, c, form[1], form[2], form[3], form[4])
  \/ \E p \in Procs : RegisterSteps(p)

SpecRegister == InitRegister /\ [][NextRegister]_vars

\* two links, one of alice and one of bob, in either order of creation
OwnedTables ==
  {[i \in 1..2 |-> [original_url |-> <<97>>, user_id |-> owner[i], clicks |-> ClicksDefault]] :
     owner \in {<<1, 2>>, <<2, 1>>}}

\* alice or bob is logged in, or nobody; links are created, resolved and the
\* statistics page is viewed
InitOwners ==
  InitOf({LocalEnv}, {TRUE}, {TRUE}, {AliceAndBob}, {NoSession, Alice, Bob}, OwnedTables,
         {BucketAndClient})

NextOwners ==
  \/ \E p \in Procs : get_db_connection(p)
  \/ \E p \in Procs, c \in Clients : stats_begin(p, c)
  \/ \E p \in Procs : stats_query(p)
  \/ \E p \in Procs, c \in Clients : index_begin(p, c, "POST", <<97>>)
  \/ \E p \in Procs : insert_url_execute(p)
  \/ \E p \in Procs : insert_url_commit(p)
  \/ \E p \in Procs : generate_qr_code(p)
  \/ \E p \in Procs : upload_to_gcs(p)
  \/ \E p \in Procs : \E id \in {encode(1), encode(2)} : url_redirect_begin(p, id)
  \/ \E p \in Procs : RedirectSteps(p)

SpecOwners == InitOwners /\ [][NextOwners]_vars

\* the pool of either process may be missing at start and may hold one
\* connection only; links are resolved by both resolvers and the probe is asked
InitPool ==
  InitWith({LocalEnv, OneConnectionEnv}, {TRUE}, BOOLEAN, {NoSession}, OneLink({ClicksDefault}),
           {BucketAndClient})

NextPool ==
  \/ \E p \in Procs : get_db_connection(p)
  \/ \E p \in Procs : init_db_pool(p)
  \/ \E p \in Procs : health(p)
  \/ \E p \in Procs : url_redirect_begin(p, encode(1))
  \/ \E p \in Procs : RedirectSteps(p)
  \/ \E p \in Procs : cf_begin(p, encode(1))
  \/ \E p \in Procs : CfSteps(p)

SpecPool == InitPool /\ [][NextPool]_vars

\* the login forms clients send: the page itself, the right password, a wrong
\* password, a username nobody has and a missing field
LoginForms ==
  {<<"GET", "", "">>, <<"POST", "alice", "pw1">>, <<"POST", "alice", "pw2">>,
   <<"POST", "bob", "pw1">>, <<"POST", "", "pw1">>}

\* logins and logouts of a client who is or is not logged in
InitLogin ==
  InitWith({LocalEnv}, {TRUE}, {TRUE}, {NoSession, Alice}, OneLink({ClicksDefault}),
           {BucketAndClient})

NextLogin ==
  \/ \E p \in Procs : get_db_connection(p)
  \/ \E p \in Procs, c \in Clients : \E form \in LoginForms :
       login_begin(p, c, form[1], form[2], form[3])
  \/ \E p \in Procs : login_select(p)
  \/ \E p \in Procs, c \in Clients : logout(p, c)

SpecLogin == InitLogin /\ [][NextLogin]_vars


\* /metrics is asked while links are resolved against a database that may fail
InitMetrics ==
  InitWith({LocalEnv}, {TRUE}, {TRUE}, {NoSession}, OneLink({ClicksDefault}), {BucketAndClient})

NextMetrics ==
  \/ \E p \in Procs : before_request(p)
  \/ \E p \in Procs : before_request_store(p)
  \/ \E p \in Procs : metrics(p)
  \/ \E p \in Procs : get_db_connection(p)
  \/ \E p \in Procs : url_redirect_begin(p, encode(1))
  \/ \E p \in Procs : RedirectSteps(p)

SpecMetrics == InitMetrics /\ [][NextMetrics]_vars

\* the login forms of two users: the page itself, each user's own password, a
\* wrong password and a missing field
SessionForms ==
  {<<"GET", "", "">>, <<"POST", "alice", "pw1">>, <<"POST", "alice", "pw2">>,
   <<"POST", "bob", "pw2">>, <<"POST", "", "pw1">>}

\* a client who is or is not logged in logs in, logs out and asks for / and /stats
InitSession ==
  InitOf({LocalEnv}, {TRUE}, {TRUE}, {AliceAndBob}, {NoSession, Alice},
         OneLink({ClicksDefault}), {BucketAndClient})

NextSession ==
  \/ \E p \in Procs : get_db_connection(p)
  \/ \E p \in Procs, c \in Clients : \E form \in SessionForms :
       login_begin(p, c, form[1], form[2], form[3])
  \/ \E p \in Procs : login_select(p)
  \/ \E p \in Procs, c \in Clients : logout(p, c)
  \/ \E p \in Procs, c \in Clients : index_begin(p, c, "GET", <<>>)
  \/ \E p \in Procs, c \in Clients : stats_begin(p, c)
  \/ \E p \in Procs : stats_query(p)

SpecSession == InitSession /\ [][NextSession]_vars

\* URLs are shortened and QR images downloaded under every setting of the
\* bucket and the storage client
InitStore ==
  InitWith({LocalEnv}, {TRUE}, {TRUE}, {Alice}, OneLink({ClicksDefault}), Stores)

NextStore ==
  \/ \E p \in Procs : get_db_connection(p)
  \/ \E p \in Procs, c \in Clients : index_begin(p, c, "POST", <<97>>)
  \/ \E p \in Procs : insert_url_execute(p)
  \/ \E p \in Procs : insert_url_commit(p)
  \/ \E p \in Procs : generate_qr_code(p)
  \/ \E p \in Procs : upload_to_gcs(p)
  \/ \E p \in Procs : \E hashid \in IssuedCodes \cup {ForeignCode} : download_qr(p, hashid)

SpecStore == InitStore /\ [][NextStore]_vars
(***************************************************************************)
(* Properties of the redirect resolver.                                    *)
(***************************************************************************)
\* the Flask application resolves locally
LocalMode == ~(env.USE_CLOUD_FUNCTION_REDIRECT /\ env.CLOUD_FUNCTION_REDIRECT_URL # "")

\* the request completed last was answered 302 to the stored original URL
AnsweredOriginal ==
  /\ last.resp.status = 302
  /\ last.resp.target = "original_url"

\* C1: when the redirects of a link ran one after another with no overlap, none
\* is in progress and each of the N answered 302 to the original URL, the
\* link's clicks equal its clicks before the first redirect plus exactly N.
SequentialRedirectsAddN ==
  \A id \in DOMAIN urls :
    (/\ ~redirects[id].overlapped
     /\ Resolving(id) = {}
     /\ redirects[id].ok302 = redirects[id].begun)
    => urls[id].clicks = clicks0[id] + redirects[id].begun

TwoSequentialRedirects ==
  /\ redirects[1].begun = 2
  /\ redirects[1].ok302 = 2
  /\ ~redirects[1].overlapped
  /\ Resolving(1) = {}
  /\ urls[1].clicks = clicks0[1] + 2

\* C2: a redirect that commits and answers 302 stores the count it read itself
\* plus one, whatever the store holds by then (no row lock, no store-side
\* increment), so two overlapping redirects that both read N both write N+1.
RedirectWritesReadPlusOne ==
  [][\A p \in Procs :
       (/\ pc[p] \in {"rd_commit", "cf_commit"}
        /\ pc'[p] = "idle"
        /\ last'.resp.status = 302
        /\ last'.resp.target = "original_url")
       => urls'[loc[p].original_id].clicks = loc[p].clicks + 1]_vars

LostIncrement ==
  /\ redirects[1].begun = 2
  /\ redirects[1].ok302 = 2
  /\ redirects[1].overlapped
  /\ Resolving(1) = {}
  /\ urls[1].clicks = clicks0[1] + 1

\* C3: the stored clicks of a link never decrease from one state to the next,
\* and only a commit of the redirect resolver changes them.
ClicksNeverDecrease ==
  [][\A id \in DOMAIN urls :
       /\ urls'[id].clicks >= urls[id].clicks
       /\ urls'[id].clicks # urls[id].clicks
          => \E p \in Procs : pc[p] \in {"rd_commit", "cf_commit"} /\ pc'[p] = "idle"]_vars

\* C4 as claimed: resolving the code returned for an accepted URL redirects to
\* the string that was submitted, byte for byte.
RedirectsToSubmitted ==
  (/\ last.req.kind = "url_redirect"
   /\ AnsweredOriginal
   /\ last.req.id \in DOMAIN submitted)
  => last.resp.location = submitted[last.req.id]

\* C4: resolving the code returned for an accepted URL redirects to the
\* submitted string with its leading and trailing whitespace removed, which is
\* also what the row of the link stores.
RedirectsToStripped ==
  /\ (/\ last.req.kind = "url_redirect"
      /\ AnsweredOriginal
      /\ last.req.id \in DOMAIN submitted)
     => last.resp.location = strip(submitted[last.req.id])
  /\ \A code \in DOMAIN submitted :
       urls[decode(code)[1]].original_url = strip(submitted[code])

PaddedUrlResolved ==
  /\ last.req.kind = "url_redirect"
  /\ AnsweredOriginal
  /\ last.req.id \in DOMAIN submitted
  /\ submitted[last.req.id] # strip(submitted[last.req.id])
  /\ last.resp.location = strip(submitted[last.req.id])

\* C5: in local mode a request whose code does not decode is answered 404, has
\* acquired no connection and read or written no row, and the step that
\* answers it leaves the tables and both pools as they were.
UndecodableIs404 ==
  /\ [](((last.req.kind = "url_redirect" /\ LocalMode) \/ last.req.kind = "cf_redirect")
        /\ Len(decode(last.req.id)) = 0
        => /\ last.resp.status = 404
           /\ last.loc.acquired = 0
           /\ last.loc.reads = 0
           /\ last.loc.writes = 0
           /\ last.loc.commits = 0)
  /\ [][(/\ requests_total + cf_requests # requests_total' + cf_requests'
         /\ last'.req.kind \in {"url_redirect", "cf_redirect"}
         /\ Len(decode(last'.req.id)) = 0
         /\ pc' = pc)
        => UNCHANGED <<users, urls, autoinc, db_pool, cf_db_pool, checked_out,
                       cf_checked_out>>]_vars

ForeignCodeRefused ==
  /\ last.req.kind = "url_redirect"
  /\ last.req.id = ForeignCode
  /\ last.resp.status = 404
  /\ last.loc.acquired = 0

\* C6: a lookup that finds no row for the decoded id and meets no database error
\* answers 404, leaves every row of urls and users unchanged, writes nothing and
\* gives its connection back to the pool.
AbsentIdIs404 ==
  [][\A p \in Procs :
       (/\ loc[p].original_id \notin DOMAIN urls
        /\ pc'[p] = "idle"
        /\ \/ pc[p] = "rd_select" /\ errors_total' = errors_total
           \/ pc[p] = "cf_select" /\ last'.loc.rollbacks = 0)
       => /\ last'.resp.status = 404
          /\ last'.loc.writes = 0
          /\ last'.loc.commits = 0
          /\ users' = users
          /\ urls' = urls
          /\ loc[p].conn
          /\ pc[p] = "rd_select" => checked_out' = checked_out - 1
          /\ pc[p] = "cf_select" => cf_checked_out' = cf_checked_out - 1]_vars

AbsentIdLookedUp ==
  /\ last.req.kind = "url_redirect"
  /\ Len(decode(last.req.id)) > 0
  /\ decode(last.req.id)[1] \notin DOMAIN urls
  /\ last.resp.status = 404
  /\ last.loc.reads = 1
  /\ checked_out = 0

\* C7 as claimed: in local mode the Flask handler answers only 302 to the
\* original URL of the decoded link or 404.
OnlyOriginalOr404 ==
  (last.req.kind = "url_redirect" /\ LocalMode)
  => \/ last.resp.status = 404
     \/ /\ AnsweredOriginal
        /\ Len(decode(last.req.id)) > 0
        /\ decode(last.req.id)[1] \in DOMAIN urls
        /\ last.resp.location = urls[decode(last.req.id)[1]].original_url

\* C7: in local mode the Flask handler answers 302 to the original URL of the
\* decoded link, or 404, or, after an exception (a database error during
\* connect, select, update or commit), 302 to the index page with the "error
\* occurred while redirecting" message.
OriginalOr404OrErrorPage ==
  (last.req.kind = "url_redirect" /\ LocalMode)
  => \/ last.resp.status = 404
     \/ /\ AnsweredOriginal
        /\ Len(decode(last.req.id)) > 0
        /\ decode(last.req.id)[1] \in DOMAIN urls
        /\ last.resp.location = urls[decode(last.req.id)[1]].original_url
     \/ /\ last.resp.status = 302
        /\ last.resp.target = "index"
        /\ last.resp.flash = "An error occurred while redirecting. Please try again."
        /\ errors_total > 0
        /\ last.loc.commits = 0

CommitErrorRedirectsToIndex ==
  /\ last.req.kind = "url_redirect"
  /\ last.resp.status = 302
  /\ last.resp.target = "index"
  /\ last.loc.writes = 1
  /\ last.loc.rollbacks = 1

\* what a forwarded request looks like: 302 to the external service, with no
\* connection acquired and no row read or written
ForwardedUntouched ==
  /\ last.resp.status = 302
  /\ last.resp.target = "cloud_function"
  /\ last.resp.location = last.req.id
  /\ last.loc.acquired = 0
  /\ last.loc.reads = 0
  /\ last.loc.writes = 0

\* C8 as claimed: with the switch enabled every GET /{code} is forwarded
\* untouched; with the switch disabled it is resolved locally.
SwitchForwards ==
  last.req.kind = "url_redirect"
  => IF env.USE_CLOUD_FUNCTION_REDIRECT
     THEN ForwardedUntouched
     ELSE last.resp.target # "cloud_function"

\* C8: with the switch enabled and a non-empty CLOUD_FUNCTION_REDIRECT_URL every
\* GET /{code} is forwarded untouched; with the switch disabled, or the URL
\* empty, it is resolved locally.
SwitchAndUrlForward ==
  last.req.kind = "url_redirect"
  => IF env.USE_CLOUD_FUNCTION_REDIRECT /\ env.CLOUD_FUNCTION_REDIRECT_URL # ""
     THEN ForwardedUntouched
     ELSE last.resp.target # "cloud_function"

ForeignCodeForwarded ==
  /\ env.USE_CLOUD_FUNCTION_REDIRECT
  /\ env.CLOUD_FUNCTION_REDIRECT_URL # ""
  /\ last.req.kind = "url_redirect"
  /\ last.req.id = ForeignCode
  /\ ForwardedUntouched
  /\ ~db_pool

(***************************************************************************)
(* Properties of registration.                                             *)
(***************************************************************************)
DuplicateMessage == "Username already exists. Please choose a different username."

\* C9: a valid registration begun after one with the same username succeeded
\* inserts nothing, is answered with the duplicate-username message once its
\* uniqueness query has run, and registrations of a name that never overlapped
\* leave exactly one row of that name.
SecondRegistrationRejected ==
  /\ (last.req.kind = "register" /\ last.loc.prior_ok)
     => /\ last.loc.writes = 0
        /\ last.loc.commits = 0
        /\ last.loc.reads = 1 => /\ last.resp.status = 302
                                 /\ last.resp.target = "register"
                                 /\ last.resp.flash = DuplicateMessage
  /\ \A u \in DOMAIN registrations :
       (registrations[u].ok > 0 /\ ~registrations[u].overlapped)
       => Cardinality(RowsNamed(u)) = 1

DuplicateRejected ==
  /\ last.req.kind = "register"
  /\ last.loc.prior_ok
  /\ last.loc.reads = 1
  /\ last.resp.flash = DuplicateMessage
  /\ registrations[last.req.username].begun = 2
  /\ ~registrations[last.req.username].overlapped
  /\ Cardinality(RowsNamed(last.req.username)) = 1

\* C10: two registrations of one username both succeed only without the unique
\* constraint, and then two rows of that name exist; under the constraint at
\* most one row of a name exists, and an INSERT that meets a committed row of
\* its name changes no row and is answered with the generic registration error.
OverlappingRegistrations ==
  /\ [](\A u \in DOMAIN registrations :
          /\ username_unique => Cardinality(RowsNamed(u)) <= 1
          /\ registrations[u].ok >= 2
             => /\ ~username_unique
                /\ registrations[u].overlapped
                /\ Cardinality(RowsNamed(u)) >= 2)
  /\ [][\A p \in Procs :
          (/\ username_unique
           /\ pc[p] = "rg_insert"
           /\ pc'[p] = "idle"
           /\ RowsNamed(req[p].username) # {})
          => /\ users' = users
             /\ Cardinality(RowsNamed(req[p].username)) = 1
             /\ last'.resp.status = 302
             /\ last'.resp.target = "register"
             /\ last'.resp.flash = "An error occurred during registration. Please try again."]_vars

BothRegistered ==
  /\ ~username_unique
  /\ registrations["bob"].ok = 2
  /\ registrations["bob"].overlapped
  /\ Cardinality(RowsNamed("bob")) = 2


(***************************************************************************)
(* Properties of the connection pool and the data access layer.            *)
(***************************************************************************)
\* the handlers that answer a database exception with their except clause
Handlers == {"url_redirect", "index", "stats", "register", "login", "cf_redirect"}

\* the request completed last ended in its handler's except clause
AnsweredError ==
  /\ last.req.kind \in Handlers
  /\ last.resp = ErrorResponse(last.req.kind)

AllIdle == \A p \in Procs : pc[p] = "idle"

\* C11: the connections checked out of each pool are exactly those held by
\* requests in progress, a request acquires at most one, and once every request
\* has completed, on whatever exit path, no connection is checked out.
ConnectionsReturned ==
  /\ checked_out =
       Cardinality({p \in Procs : pc[p] # "idle" /\ req[p].kind # "cf_redirect" /\ loc[p].conn})
  /\ cf_checked_out =
       Cardinality({p \in Procs : pc[p] # "idle" /\ req[p].kind = "cf_redirect" /\ loc[p].conn})
  /\ \A p \in Procs : loc[p].acquired <= 1
  /\ AllIdle => checked_out = 0 /\ cf_checked_out = 0

ErrorPathReturnsConnection ==
  /\ AllIdle
  /\ AnsweredError
  /\ last.loc.acquired = 1
  /\ last.loc.writes = 1
  /\ requests_total + cf_requests = MaxRequests
  /\ checked_out = 0
  /\ cf_checked_out = 0

\* C12: a request that meets a database error while it holds a connection rolls
\* its transaction back before the connection is closed: every connection is
\* released without a pending write, the failed request counts one rollback,
\* and unless the failing statement is the commit itself the tables keep their
\* committed rows.
RollbackBeforeRelease ==
  /\ [](last.loc.txn = NoTxn)
  /\ []((AnsweredError /\ last.loc.acquired = 1) => last.loc.rollbacks = 1)
  /\ [][\A p \in Procs :
          (/\ loc[p].conn
           /\ pc'[p] = "idle"
           /\ last'.req.kind \in Handlers
           /\ last'.resp = ErrorResponse(last'.req.kind)
           /\ loc[p].commits = last'.loc.commits
           /\ pc[p] \notin {"rd_commit", "cf_commit", "ins_commit", "rg_commit"})
          => users' = users /\ urls' = urls]_vars

FailedUpdateRolledBack ==
  /\ last.req.kind \in {"url_redirect", "cf_redirect"}
  /\ AnsweredError
  /\ last.loc.writes = 1
  /\ last.loc.commits = 0
  /\ last.loc.rollbacks = 1
  /\ last.loc.txn = NoTxn
  /\ urls[1].clicks = clicks0[1]

\* C13: a login or statistics read that meets the only database failure of a
\* behaviour is retried, so the request is answered with the read's result and
\* not with the handler's error response.
ReadRetried ==
  (last.req.kind \in {"login", "stats"} /\ errors_total <= 1) => ~AnsweredError

\* C14: a request issues its write at most once and commits at most once, also
\* when the commit raises: a step adds at most one row to a table, rows are
\* added and clicks changed only by a worker that leaves its commit having
\* written once, and a changed click count is the count that worker read plus
\* one.
WritesIssuedOnce ==
  /\ [](\A p \in Procs : loc[p].writes <= 1 /\ loc[p].commits <= 1)
  /\ [](last.loc.writes <= 1 /\ last.loc.commits <= 1)
  /\ [][(/\ Cardinality(DOMAIN urls') <= Cardinality(DOMAIN urls) + 1
         /\ Cardinality(DOMAIN users') <= Cardinality(DOMAIN users) + 1
         /\ autoinc'.urls <= autoinc.urls + 1
         /\ autoinc'.users <= autoinc.users + 1
         /\ (urls' # urls \/ users' # users)
            => \E p \in Procs :
                 /\ pc[p] \in {"rd_commit", "cf_commit", "ins_commit", "rg_commit"}
                 /\ pc'[p] \notin {"rd_update", "cf_update", "ins_execute", "rg_insert",
                                    "rd_commit", "cf_commit", "ins_commit", "rg_commit"}
                 /\ loc[p].writes = 1
                 /\ \A id \in DOMAIN urls :
                      urls'[id].clicks # urls[id].clicks
                      => urls'[id].clicks = loc[p].clicks + 1)]_vars

UnknownCommitNotRetried ==
  /\ last.req.kind = "index"
  /\ AnsweredError
  /\ last.loc.writes = 1
  /\ last.loc.commits = 0
  /\ last.loc.rollbacks = 1
  /\ DOMAIN urls = {1, 2}
  /\ autoinc.urls = 3

(***************************************************************************)
(* Properties of the shorten flow and its QR image.                        *)
(***************************************************************************)
\* C15: once insert_url has returned, the request is answered 200 with the
\* short URL of the persisted row whatever happens to the QR image; the image
\* path is the public URL only when the image was rendered, uploaded and is in
\* the bucket, and None otherwise; a code issued resolves to its row with or
\* without an image.
QrFailureKeepsShortUrl ==
  /\ []((last.req.kind = "index" /\ last.loc.commits = 1)
        => /\ last.resp.status = 200
           /\ last.loc.url_id \in DOMAIN urls
           /\ last.resp.short_url = encode(last.loc.url_id)
           /\ last.resp.image_path \in {"public_url", "None"}
           /\ last.resp.image_path = "public_url"
              => /\ last.loc.qr_path
                 /\ gcs_bucket_name # ""
                 /\ gcs_client
                 /\ last.loc.uploads = 1
                 /\ PngName(encode(last.loc.url_id)) \in gcs)
  /\ [](\A p \in Procs :
          pc[p] \in {"qr_generate", "qr_upload"}
          => loc[p].url_id \in DOMAIN urls /\ ~loc[p].conn)
  /\ [](\A code \in DOMAIN submitted : decode(code)[1] \in DOMAIN urls)
  /\ [][\A p \in Procs :
          (/\ pc[p] = "rd_select"
           /\ pc'[p] = "idle"
           /\ encode(loc[p].original_id) \in DOMAIN submitted)
          => last'.resp = ErrorResponse("url_redirect")]_vars

ResolvedWithoutQr ==
  /\ last.req.kind = "url_redirect"
  /\ AnsweredOriginal
  /\ last.req.id \in DOMAIN submitted
  /\ PngName(last.req.id) \notin gcs
  /\ errors_total = 1

\* C16: when a shorten request that rendered a QR file has completed, the file
\* is gone from the temporary directory.
QrFileRemoved ==
  (last.req.kind = "index" /\ last.loc.qr_path) => encode(last.loc.url_id) \notin tmp

\* C17: a POST to / of a logged-in user whose URL is empty or blank is answered
\* with "The URL is required!", having acquired no connection, written nothing,
\* rendered no QR file and uploaded nothing, and the step that answers it leaves
\* the tables, the pool, the bucket and the temporary directory as they were.
BlankUrlRejected ==
  /\ [](\A p \in Procs : req[p].kind = "index" => strip(req[p].url) # <<>>)
  /\ []((/\ last.req.kind = "index"
         /\ last.req.method = "POST"
         /\ last.req.user_id # 0
         /\ strip(last.req.url) = <<>>)
        => /\ last.resp = FlashRedirect("index", "The URL is required!")
           /\ last.loc = NoLoc)
  /\ [][(/\ requests_total' = requests_total + 1
         /\ pc' = pc
         /\ last'.req.kind = "index"
         /\ strip(last'.req.url) = <<>>)
        => UNCHANGED <<urls, autoinc, checked_out, db_pool, gcs, tmp, submitted>>]_vars

BlankUrlRefused ==
  /\ last.req.kind = "index"
  /\ last.req.method = "POST"
  /\ last.req.user_id = 1
  /\ last.req.url = <<SPACE>>
  /\ last.resp.flash = "The URL is required!"
  /\ last.loc.acquired = 0
  /\ DOMAIN urls = {1, 2}

(***************************************************************************)
(* Properties of the session check and of the statistics page.             *)
(***************************************************************************)
\* C18: a request to / or /stats that carries no user_id is answered with the
\* redirect to login and never gets past the session check: it holds no
\* connection, reads and writes nothing, and no urls row belongs to no user.
LoginRequired ==
  /\ [](\A p \in Procs : req[p].kind \in {"index", "stats"} => req[p].user_id # 0)
  /\ []((last.req.kind \in {"index", "stats"} /\ last.req.user_id = 0)
        => /\ last.resp = FlashRedirect("login", "You must be logged in to access this page.")
           /\ last.loc = NoLoc)
  /\ [](\A id \in DOMAIN urls : urls[id].user_id # 0)
  /\ [][(/\ requests_total' = requests_total + 1
         /\ pc' = pc
         /\ last'.req.kind \in {"index", "stats"}
         /\ last'.req.user_id = 0)
        => UNCHANGED <<urls, users, autoinc, checked_out, db_pool>>]_vars

AnonymousPostRefused ==
  /\ last.req.kind = "index"
  /\ last.req.method = "POST"
  /\ last.req.user_id = 0
  /\ last.resp.target = "login"
  /\ requests_total = MaxRequests
  /\ DOMAIN urls = {1}

RECURSIVE ClicksUpTo(_, _)
\* the clicks of the links of a user among the ids 1..k
ClicksUpTo(user_id, k) ==
  IF k = 0 THEN 0
  ELSE (IF k \in DOMAIN urls /\ urls[k].user_id = user_id THEN urls[k].clicks ELSE 0)
       + ClicksUpTo(user_id, k - 1)

\* the ids of the links of a user
LinksOf(user_id) == {i \in DOMAIN urls : urls[i].user_id = user_id}

\* the ids the statistics page answered last lists, in its order
Listed == [k \in 1..Len(last.resp.urls) |-> last.resp.urls[k].id]

StatsAnswered == last.req.kind = "stats" /\ last.resp.status = 200

\* C19: the statistics page reports the number and the clicks of all links of
\* the user, displayed or not, and as average the floor of clicks over number,
\* or 0 when the user has no link.
AverageIsFloor ==
  StatsAnswered
  => LET n     == Cardinality(LinksOf(last.req.user_id))
         total == ClicksUpTo(last.req.user_id, MaxUrlId)
         avg   == last.resp.average_clicks
     IN  /\ last.resp.total_urls = n
         /\ last.resp.total_clicks = total
         /\ n = 0 => avg = 0
         /\ n > 0 => avg * n <= total /\ total < (avg + 1) * n

AverageOverHiddenLinks ==
  /\ StatsAnswered
  /\ last.resp.total_urls > Len(last.resp.urls)
  /\ last.resp.total_clicks = 4
  /\ last.resp.total_urls = 3
  /\ last.resp.average_clicks = 1
  /\ urls[1].clicks = 0

\* C20 as claimed: the links of the page are ordered most-recent-first (larger
\* id earlier) and are the most recent ones of the user.
ListedMostRecentFirst ==
  StatsAnswered
  => /\ \A i, j \in 1..Len(Listed) : i < j => Listed[i] > Listed[j]
     /\ \A k \in LinksOf(last.req.user_id) \ Range(Listed) :
          \A l \in Range(Listed) : k < l

\* C20: the links of the page are the most recent ones of the user, as many
\* as the limit allows, and they are ordered oldest-first: of two listed links
\* the one with the larger id appears later.
ListedOldestFirstOfRecent ==
  StatsAnswered
  => /\ \A i, j \in 1..Len(Listed) : i < j => Listed[i] < Listed[j]
     /\ Range(Listed) \subseteq LinksOf(last.req.user_id)
     /\ \A k \in LinksOf(last.req.user_id) \ Range(Listed) :
          \A l \in Range(Listed) : k < l
     /\ Len(Listed) = IF last.resp.total_urls < MAX_TABLE_ITEMS THEN last.resp.total_urls
                      ELSE MAX_TABLE_ITEMS

MoreLinksThanListed ==
  /\ StatsAnswered
  /\ last.resp.total_urls > MAX_TABLE_ITEMS
  /\ Len(Listed) = MAX_TABLE_ITEMS
  /\ Listed[1] = last.resp.total_urls - MAX_TABLE_ITEMS + 1
  /\ Listed[Len(Listed)] = last.resp.total_urls
(***************************************************************************)
(* Ownership of links.                                                     *)
(***************************************************************************)
\* C21: the statistics page answered in a user's session counts and lists
\* exactly the urls rows of that user; a step that adds or changes only rows of
\* other users (a link created, a click counted) leaves the page of the user
\* as it was; and a redirect is never
\* sent to the login page: a commit that succeeds answers 302 to the original
\* URL of the link, whoever owns it and whoever is logged in.
StatsOnlyOwnLinks ==
  /\ [][\A p \in Procs :
          (pc[p] = "st_query" /\ pc'[p] = "idle" /\ errors_total' = errors_total)
          => /\ last'.resp.status = 200
             /\ last'.resp.total_urls = Cardinality(LinksOf(loc[p].user_id))
             /\ last'.resp.total_clicks = ClicksUpTo(loc[p].user_id, MaxUrlId)
             /\ \A k \in 1..Len(last'.resp.urls) :
                  /\ last'.resp.urls[k].id \in LinksOf(loc[p].user_id)
                  /\ last'.resp.urls[k].clicks = urls[last'.resp.urls[k].id].clicks]_vars
  /\ [][\A u \in DOMAIN users :
          (/\ urls' # urls
           /\ \A i \in DOMAIN urls' :
                urls'[i].user_id = u => i \in DOMAIN urls /\ urls'[i] = urls[i])
          => StatsPage(u)' = StatsPage(u)]_vars
  /\ [](last.req.kind \in {"url_redirect", "cf_redirect"} => last.resp.target # "login")
  /\ [][\A p \in Procs :
          (pc[p] = "rd_commit" /\ pc'[p] = "idle" /\ errors_total' = errors_total)
          => /\ last'.resp.status = 302
             /\ last'.resp.location = urls[loc[p].original_id].original_url]_vars

\* alice views her page after bob created a link and the link bob started with
\* was clicked
OthersLinksNotCounted ==
  /\ StatsAnswered
  /\ last.req.user_id = 1
  /\ last.resp.total_urls = 1
  /\ last.resp.total_clicks = 0
  /\ session[1] = Alice
  /\ \E i \in DOMAIN urls : urls[i].user_id = 2 /\ urls[i].clicks = 1
  /\ Cardinality(LinksOf(2)) = 1

(***************************************************************************)
(* Properties of the health probe and of the pool objects.                 *)
(***************************************************************************)
\* C22: the step that answers /health answers 200 with database "connected"
\* exactly when the pool object exists at that moment and 503 exactly when it
\* does not; it acquires no connection, reads nothing, counts no error and
\* leaves the pools, their connections and the tables as they were.
HealthReflectsPoolOnly ==
  /\ [](last.req.kind = "health"
        => /\ last.loc = NoLoc
           /\ last.resp.status \in {200, 503}
           /\ last.resp.status = 200 <=> last.resp.database = "connected")
  /\ [][(/\ requests_total' = requests_total + 1
         /\ pc' = pc
         /\ last'.req.kind = "health")
        => /\ last'.resp.status = 200 <=> db_pool
           /\ last'.resp.status = 503 <=> ~db_pool
           /\ UNCHANGED <<db_pool, cf_db_pool, pools_created, checked_out, cf_checked_out,
                          users, urls, autoinc, errors_total>>]_vars

\* the probe answers 200 right after a request could not get a connection
HealthyWhileUnreachable ==
  /\ last.req.kind = "health"
  /\ last.resp.status = 200
  /\ last.resp.database = "connected"
  /\ errors_total = 2
  /\ requests_total = MaxRequests
  /\ urls[1].clicks = clicks0[1]
  /\ redirects[1].begun = 2

(***************************************************************************)
(* Properties of login.                                                    *)
(***************************************************************************)
\* the users rows a login request's username and password match
Matching(request) ==
  {i \in DOMAIN users : /\ users[i].username = request.username
                        /\ users[i].password = sha256(request.password)}

\* C23: a login with both fields filled in whose query finds no matching row
\* is answered with the redirect to login and "Invalid username or password."
\* and leaves every session as it was, whether or not a user of that name
\* exists; a login that did not succeed is never answered with anything but
\* that message or the generic login error.
FailedLoginGeneric ==
  /\ [][\A p \in Procs :
          (/\ pc[p] = "lg_select"
           /\ pc'[p] = "idle"
           /\ errors_total' = errors_total
           /\ Matching(req[p]) = {})
          => /\ last'.resp = FlashRedirect("login", "Invalid username or password.")
             /\ last'.loc.reads = 1
             /\ session' = session]_vars
  /\ []((/\ last.req.kind = "login"
         /\ last.req.method = "POST"
         /\ last.req.username # ""
         /\ last.req.password # ""
         /\ last.resp.target # "index")
        => last.resp \in {FlashRedirect("login", "Invalid username or password."),
                          ErrorResponse("login")})

\* a wrong password for a username that exists, by a client who is logged in
WrongPasswordGeneric ==
  /\ last.req.kind = "login"
  /\ last.req.username = "alice"
  /\ last.req.password = "pw2"
  /\ RowsNamed("alice") # {}
  /\ last.loc.reads = 1
  /\ last.resp = FlashRedirect("login", "Invalid username or password.")
  /\ session[last.req.client] = Alice

(***************************************************************************)
(* Properties of the short codes.                                          *)
(***************************************************************************)
\* the ids the urls table has handed out, committed or not
IssuedIds == {k \in UrlIds : k < autoinc.urls}

\* C24: every id the store has issued decodes from its code to itself, its
\* code has the minimum length, no two issued ids share a code, every code
\* shown to a user is the code of exactly one link, and the code shown by a
\* shorten request is the code of the row it inserted.
CodesRoundTrip ==
  /\ \A i \in IssuedIds :
       /\ decode(encode(i)) = <<i>>
       /\ Len(encode(i)) >= min_length
  /\ \A i, j \in IssuedIds : encode(i) = encode(j) => i = j
  /\ \A code \in DOMAIN submitted : Cardinality({i \in DOMAIN urls : encode(i) = code}) = 1
  /\ (last.req.kind = "index" /\ last.resp.status = 200 /\ last.req.method = "POST")
     => /\ decode(last.resp.short_url) = <<last.loc.url_id>>
        /\ last.resp.short_url \in DOMAIN submitted

\* three links exist and the code of the third was resolved to the third
ThirdCodeResolved ==
  /\ DOMAIN urls = {1, 2, 3}
  /\ last.req.kind = "url_redirect"
  /\ last.req.id = encode(3)
  /\ AnsweredOriginal
  /\ urls[3].clicks = 1
  /\ urls[1].clicks = 0
  /\ urls[2].clicks = 0

\* C25: a resolver treats a path segment as the code of link id exactly when
\* the segment is encode(id): a request with any other segment is answered 404
\* having acquired no connection and read no row, and a request with encode(id)
\* looks up id and no other link. Requests that ended in a database error are
\* left aside, so that what violates the statement is a resolution.
OnlyOwnCodeResolves ==
  (/\ (last.req.kind = "url_redirect" /\ LocalMode) \/ last.req.kind = "cf_redirect"
   /\ ~AnsweredError)
  => /\ (\A i \in UrlIds : last.req.id # encode(i))
        => /\ last.resp.status = 404
           /\ last.loc.acquired = 0
           /\ last.loc.reads = 0
           /\ last.loc.writes = 0
     /\ \A i \in UrlIds :
          (last.req.id = encode(i) /\ last.loc.reads > 0) => last.loc.original_id = i

(***************************************************************************)
(* Properties of failing writes.                                           *)
(***************************************************************************)
\* the step of worker p is its shorten request ending in the except clause of
\* index after the INSERT or the commit raised
ShortenFails(p) ==
  /\ pc[p] \in {"ins_execute", "ins_commit"}
  /\ pc'[p] = "idle"
  /\ last'.req.kind = "index"
  /\ last'.resp = ErrorResponse("index")

\* what every failing shorten request does: one rollback, the connection back
\* in the pool, one more error counted and no code handed out
FailedShortenCleansUp(p) ==
  /\ last'.loc.rollbacks = 1
  /\ last'.loc.txn = NoTxn
  /\ loc[p].conn
  /\ checked_out' = checked_out - 1
  /\ errors_total' = errors_total + 1
  /\ submitted' = submitted
  /\ last'.resp.short_url = <<>>

AppPoolBounded ==
  /\ [](checked_out <= env.DB_POOL_MAX_SIZE)
  /\ [][\A p \in Procs :
          (/\ pc[p] \in {"rd_connect", "ins_connect", "rg_connect", "lg_connect", "st_connect"}
           /\ pc'[p] # pc[p]
           /\ checked_out = env.DB_POOL_MAX_SIZE)
          => /\ pc'[p] = "idle"
             /\ checked_out' = checked_out
             /\ last'.loc.acquired = 0
             /\ urls' = urls]_vars

\* C30: the Flask application constructs at most one pool object, and once
\* _db_pool is set it is never set again or reset.
OnePoolPerProcess ==
  /\ [](pools_created.app <= 1)
  /\ [][db_pool => db_pool' /\ pools_created'.app = pools_created.app]_vars

(***************************************************************************)
(* Properties of click accounting under failures.                          *)
(***************************************************************************)
\* the step of worker p ends its redirect request
RedirectEnds(p) ==
  /\ pc[p] \in {"rd_connect", "rd_select", "rd_update", "rd_commit",
                "cf_connect", "cf_select", "cf_update", "cf_commit"}
  /\ pc'[p] = "idle"

\* the request that ends in this step is answered 302 to the original URL
SendsOriginal == last'.resp.status = 302 /\ last'.resp.target = "original_url"

\* C28 as claimed: the clicks of a link are at least 0 and at most its clicks
\* at the start plus the redirects of it that committed and answered 302; a 302
\* to the original URL is sent only by the step whose commit succeeded; and a
\* redirect that ends otherwise leaves the clicks as they were.
ClicksWithinAnswered ==
  /\ [](\A id \in DOMAIN urls :
          /\ 0 <= urls[id].clicks
          /\ urls[id].clicks <= clicks0[id] + redirects[id].ok302)
  /\ [][\A p \in Procs :
          RedirectEnds(p)
          => IF SendsOriginal
             THEN pc[p] \in {"rd_commit", "cf_commit"} /\ urls' = ApplyUrls(loc[p].txn)
             ELSE urls' = urls]_vars

\* C28: the clicks of a link are at least 0 and at most its clicks at the
\* start plus the commits of its redirects that the server applied; a 302 to
\* the original URL is sent only by the step whose commit succeeded; a redirect
\* that ends before its commit leaves the clicks as they were, and one whose
\* commit raises sends no 302 to the original URL and leaves the clicks as they
\* were or as its own update set them (the server had applied the commit).
ClicksWithinApplied ==
  /\ [](\A id \in DOMAIN urls :
          /\ 0 <= urls[id].clicks
          /\ clicks0[id] <= urls[id].clicks
          /\ urls[id].clicks <= clicks0[id] + redirects[id].applied
          /\ redirects[id].ok302 <= redirects[id].applied)
  /\ [][\A p \in Procs :
          RedirectEnds(p)
          => IF SendsOriginal
             THEN /\ pc[p] \in {"rd_commit", "cf_commit"}
                  /\ urls' = ApplyUrls(loc[p].txn)
                  /\ redirects'[loc[p].original_id].ok302 = redirects[loc[p].original_id].ok302 + 1
             ELSE /\ pc[p] \notin {"rd_commit", "cf_commit"} => urls' = urls
                  /\ pc[p] \in {"rd_commit", "cf_commit"}
                     => urls' \in {urls, ApplyUrls(loc[p].txn)}]_vars

\* the only redirect of link 1 was answered with the error page and its
\* click is stored
ClickOfFailedCommit ==
  /\ last.req.kind = "url_redirect"
  /\ AnsweredError
  /\ last.loc.writes = 1
  /\ redirects[1].begun = 1
  /\ redirects[1].ok302 = 0
  /\ redirects[1].applied = 1
  /\ urls[1].clicks = clicks0[1] + 1

(***************************************************************************)
(* The two resolvers compared.                                             *)
(***************************************************************************)
\* what a resolver that got as far as the locals say answers for a path
\* segment, whichever resolver it is: 404 for a segment that does not decode,
\* 302 to the stored URL once its commit succeeded, 404 when its SELECT found
\* no row, and otherwise, after an error, the given status
Outcome(id, locals, error_status) ==
  IF Len(id) = 0 \/ Len(decode(id)) = 0 THEN <<404, <<>>>>
  ELSE IF locals.commits = 1 THEN <<302, urls[decode(id)[1]].original_url>>
  ELSE IF locals.reads = 1 /\ locals.writes = 0 /\ locals.rollbacks = 0 THEN <<404, <<>>>>
  ELSE <<error_status, <<>>>>

\* the request completed last is a local resolution by either resolver
Resolved == last.req.kind \in {"url_redirect", "cf_redirect"} /\ LocalMode

\* the effect of an ending redirect on the urls table, whichever resolver runs
\* it: none before the commit, the count read plus one in the row of the
\* decoded id when the commit succeeds
SameEffect ==
  [][\A p \in Procs :
       RedirectEnds(p)
       => /\ pc[p] \notin {"rd_commit", "cf_commit"} => urls' = urls
          /\ pc[p] \in {"rd_commit", "cf_commit"}
             => /\ urls' \in {urls, [urls EXCEPT ![loc[p].original_id].clicks =
                                                    loc[p].clicks + 1]}
                /\ SendsOriginal
                   => urls' = [urls EXCEPT ![loc[p].original_id].clicks = loc[p].clicks + 1]
          /\ last'.loc.rollbacks = IF last'.loc.commits = 0 /\ last'.loc.acquired = 1
                                      /\ last'.resp.status # 404
                                   THEN 1 ELSE 0]_vars

\* C29 as claimed: for every path segment and every point at which the store
\* may fail, the Flask resolver and the cloud function answer with the same
\* status and location and change the urls row in the same way; the status
\* after a database error is the cloud function's.
ResolversAgree ==
  /\ [](Resolved
        => <<last.resp.status, last.resp.location>> = Outcome(last.req.id, last.loc, 500))
  /\ SameEffect

\* C29: the two resolvers answer alike (302 to the same original URL, or 404)
\* and change the urls row in the same way whenever no database error occurs,
\* and after a database error both have rolled back and left the row alike,
\* but the Flask resolver answers 302 to the index page with its error message
\* where the cloud function answers 500.
ResolversAgreeUnlessError ==
  /\ [](Resolved
        => <<last.resp.status, last.resp.location>> =
             Outcome(last.req.id, last.loc,
                     IF last.req.kind = "cf_redirect" THEN 500 ELSE 302))
  /\ []((last.req.kind = "url_redirect" /\ LocalMode /\ last.resp.status = 302
         /\ last.loc.commits = 0)
        => last.resp = ErrorResponse("url_redirect"))
  /\ SameEffect

\* the commit of a Flask resolution and then the commit of a cloud function
\* resolution of the same link raised; the row is as it was
BothCommitsFailed ==
  /\ last.req.kind = "cf_redirect"
  /\ last.resp.status = 500
  /\ last.loc.writes = 1
  /\ last.loc.rollbacks = 1
  /\ requests_total = 1
  /\ cf_requests = 1
  /\ errors_total = 1
  /\ redirects[1].begun = 2
  /\ redirects[1].applied = 0
  /\ urls[1].clicks = clicks0[1]


(***************************************************************************)
(* The counters of /metrics.                                               *)
(***************************************************************************)
\* no worker is between the load and the store of before_request
CountersSettled == \A q \in Procs : pc[q] # "before_request"

\* C31: the requests_total that /metrics shows is the number of requests the
\* process has begun handling, the /metrics request included, and neither
\* counter ever decreases, however the concurrently handled requests interleave
MetricsCountRequests ==
  /\ [][\A p \in Procs :
          (pc[p] = "metrics" /\ pc'[p] = "idle" /\ CountersSettled)
          => last'.resp.requests_total = requests_begun]_vars
  /\ [][requests_total' >= requests_total /\ errors_total' >= errors_total]_vars

(***************************************************************************)
(* Properties of the session.                                              *)
(***************************************************************************)
\* a request is answered in this step: by the action that took it, or by a
\* later step of its handler
Answered ==
  \/ requests_begun' # requests_begun /\ pc' = pc
  \/ \E p \in Procs : pc[p] # "idle" /\ pc'[p] = "idle"

\* C32: the user_id of a session is the id of a users row of the session's
\* username, put there by the session's most recent successful login, whose
\* username and password hash matched that row: a session changes only when a
\* login succeeds or on logout; a login that did not succeed leaves every
\* session as it was; logout removes user_id and username; and while a
\* session holds no user_id, / and /stats are answered with the redirect to
\* login and go no further.
SessionFollowsLogin ==
  /\ [](\A c \in Clients :
          session[c].user_id # 0
          => /\ session[c].user_id \in DOMAIN users
             /\ users[session[c].user_id].username = session[c].username)
  /\ [][\A c \in Clients :
          session'[c] # session[c]
          => /\ Answered
             /\ last'.req.client = c
             /\ \/ /\ last'.req.kind = "logout"
                   /\ session'[c] = NoSession
                \/ /\ last'.req.kind = "login"
                   /\ last'.resp = FlashRedirect("index", "Login successful!")
                   /\ session'[c].user_id \in Matching(last'.req)
                   /\ session'[c].username = last'.req.username]_vars
  /\ [][(Answered /\ last'.req.kind = "login"
                  /\ last'.resp # FlashRedirect("index", "Login successful!"))
        => session' = session]_vars
  /\ [][(Answered /\ last'.req.kind = "logout")
        => session'[last'.req.client] = NoSession]_vars
  /\ [][\A p \in Procs, c \in Clients :
          (session[c].user_id = 0 /\ pc[p] = "idle")
          => ~(pc'[p] # "idle" /\ req'[p].client = c /\ req'[p].kind \in {"index", "stats"})]_vars
  /\ [][(/\ Answered
         /\ last'.req.kind \in {"index", "stats"}
         /\ requests_begun' # requests_begun
         /\ session[last'.req.client].user_id = 0)
        => last'.resp = FlashRedirect("login", "You must be logged in to access this page.")]_vars

\* bob logged in, then sent alice's name with a wrong password, and is still
\* logged in as bob
FailedLoginKeepsSession ==
  /\ last.req.kind = "login"
  /\ last.req.username = "alice"
  /\ last.req.password = "pw2"
  /\ last.resp = FlashRedirect("login", "Invalid username or password.")
  /\ session[last.req.client] = Bob

(***************************************************************************)
(* Properties of the object store.                                         *)
(***************************************************************************)
\* C33: every object of the bucket is named encode(id).png for an id whose
\* urls row is committed; the bucket changes only in the upload step of a
\* shorten request whose insert has committed, and by that request's own
\* name; a request about to upload finds its name unused and uploads once, so
\* no name is written by two requests; and no other request writes the bucket.
StoreKeysCommitted ==
  /\ [](\A blob_name \in gcs : \E id \in DOMAIN urls : blob_name = PngName(encode(id)))
  /\ [][gcs' # gcs
        => \E p \in Procs :
             /\ req[p].kind = "index"
             /\ pc[p] = "qr_upload"
             /\ pc'[p] = "idle"
             /\ loc[p].commits = 1
             /\ loc[p].url_id \in DOMAIN urls
             /\ gcs' = gcs \cup {PngName(encode(loc[p].url_id))}]_vars
  /\ [](\A p \in Procs :
          pc[p] = "qr_upload"
          => /\ PngName(encode(loc[p].url_id)) \notin gcs
             /\ loc[p].uploads = 0
             /\ \A q \in Procs \ {p} : loc[q].url_id # loc[p].url_id)
  /\ [](last.loc.uploads <= 1)

\* the QR image of a link shortened in this behaviour is downloaded
UploadedQrDownloaded ==
  /\ last.req.kind = "download_qr"
  /\ last.req.id = encode(2)
  /\ last.resp.status = 200
  /\ last.resp.location = PngName(encode(2))
  /\ 2 \in DOMAIN urls
  /\ gcs = {PngName(encode(1)), PngName(encode(2))}
====
